---- MODULE Spec2Model ----
(***************************************************************************)
(* Model of the family-office portal front end: the Messages, Meetings and *)
(* DocumentManagement screens.  App mounts one screen at a time (one Route *)
(* element per path), so each screen has its own specification starting    *)
(* from that screen's mount state.                                         *)
(*                                                                         *)
(* Strings are sequences of UTF-16 code units (naturals), so that the      *)
(* default Array.prototype.sort order, join, toLowerCase and includes are  *)
(* computed as JavaScript computes them.                                   *)
(***************************************************************************)
EXTENDS Integers, Sequences, FiniteSets

VARIABLES
    srvMessages,        \* GET /api/messages: the list the backend holds
    messages,           \* Messages: useState([])
    srvMeetings,        \* GET /api/meetings: the list the backend holds
    meetings,           \* Meetings: useState([])
    now,                \* the wall clock read by new Date()
    clockReads,         \* the clock values read by the isUpcoming calls of the last render
    upcomingMeetings,   \* Meetings: result of the first filter pass of the last render
    pastMeetings,       \* Meetings: result of the second filter pass of the last render
    prevUpcoming,       \* history: upcomingMeetings of the previous render of the same list
    srvDocuments,       \* GET /api/documents: the list the backend holds
    documents,          \* DocumentManagement: useState([])
    searchTerm,         \* DocumentManagement: useState('')
    filterType,         \* DocumentManagement: useState('')
    loading,            \* useState(true) of the mounted screen
    route,              \* the location the Router shows
    user,               \* AuthContext: the current user
    isAuthenticated,    \* AuthContext: the authenticated flag
    credentials,        \* Login: email and password
    busy,               \* Login: loading; DocumentManagement: uploading
    pending,            \* the requests in flight, in the order they were issued
    notified,           \* the toasts raised by the last step
    families,           \* useState([]) of the mounted screen
    showModal,          \* showNewMessageModal / showUploadModal / showNewMeetingModal
    form,               \* the form state of the mounted screen
    stats,              \* Dashboard: useState({documents: 0, ...})
    recentDocuments,    \* Dashboard: useState([])
    recentMessages,     \* Dashboard: useState([])
    dashUpcoming,       \* Dashboard: upcomingMeetings, useState([])
    dashJoin            \* Dashboard: the Promise.all of fetchDashboardData

vars == <<srvMessages, messages, srvMeetings, meetings, now, clockReads,
          upcomingMeetings, pastMeetings, prevUpcoming, srvDocuments, documents,
          searchTerm, filterType, loading, route, user, isAuthenticated,
          credentials, busy, pending, notified, families, showModal, form, stats,
          recentDocuments, recentMessages, dashUpcoming, dashJoin>>

msgVars == <<srvMessages, messages>>
meetVars == <<srvMeetings, meetings, now, clockReads, upcomingMeetings,
              pastMeetings, prevUpcoming>>
docVars == <<srvDocuments, documents, searchTerm, filterType>>
authVars == <<user, isAuthenticated>>
dashVars == <<stats, recentDocuments, recentMessages, dashUpcoming, dashJoin>>
srvVars == <<srvMessages, srvMeetings, srvDocuments>>
listVars == <<messages, documents, meetings, families, clockReads, upcomingMeetings,
              pastMeetings, prevUpcoming, searchTerm, filterType>>
formVars == <<showModal, form>>
appVars == <<route, authVars, credentials, busy, pending, notified, families,
             showModal, form, dashVars>>

----------------------------------------------------------------------------
(* Bounds *)

MaxMessages == 2

MaxMeetings == 2

MaxDocuments == 2

\* the last instant of the wall clock
MaxTime == 2

\* the most requests the handlers of the user's actions have in flight at once
MaxInFlight == 1

\* the most requests a screen leaves in flight when it is unmounted
MaxOrphans == 1

\* the most records of one kind the backend holds when the Dashboard is opened
MaxStored == 6

\* the most POSTs of sendMessage in flight at once
MaxSends == 2

----------------------------------------------------------------------------
(* Strings *)

\* the code unit of '-', the separator passed to join
Dash == 45

\* participant ids the backend may use: "a", "b", "a-a", "a-b"
ParticipantIds == {<<97>>, <<98>>, <<97, 45, 97>>, <<97, 45, 98>>}

\* created_at values (abstract instants)
Timestamps == {1, 2}

\* s < t in the order of the code units, the order of the default sort comparator
RECURSIVE StrLess(_, _)
StrLess(s, t) ==
    IF t = <<>> THEN FALSE
    ELSE IF s = <<>> THEN TRUE
    ELSE IF s[1] # t[1] THEN s[1] < t[1]
    ELSE StrLess(Tail(s), Tail(t))

----------------------------------------------------------------------------
(* Messages: conversation grouping *)

\* [x, y].sort() left unsorted
sortPair_Unsorted(x, y) == <<x, y>>

\* [x, y].sort(): the default comparator orders by code units, and is stable
sortPair(x, y) == IF StrLess(y, x) THEN <<y, x>> ELSE <<x, y>>

\* pair.join(sep)
join(pair, sep) == pair[1] \o sep \o pair[2]

conversationKey(message) ==
    join(sortPair(message.sender_id, message.recipient_id), <<Dash>>)

\* the position of property key in the object grouped, 0 when grouped[key] is undefined
KeyIndex(grouped, key) ==
    IF \E g \in 1..Len(grouped) : grouped[g].key = key
    THEN CHOOSE g \in 1..Len(grouped) : grouped[g].key = key
    ELSE 0

\* grouped[conversationKey] = [message]: the property overwritten on each message
pushMessage_Overwrite(grouped, message) ==
    LET key == conversationKey(message)
        g == KeyIndex(grouped, key)
    IN  IF g = 0
        THEN Append(grouped, [key |-> key, conversation |-> <<message>>])
        ELSE [grouped EXCEPT ![g].conversation = <<message>>]

\* the property created when absent, the message pushed only onto a property
\* that already existed
pushMessage_CreateOnly(grouped, message) ==
    LET key == conversationKey(message)
        g == KeyIndex(grouped, key)
    IN  IF g = 0
        THEN Append(grouped, [key |-> key, conversation |-> <<>>])
        ELSE [grouped EXCEPT ![g].conversation = Append(@, message)]

\* one iteration of the forEach: grouped[conversationKey].push(message), the
\* property created first when absent.  The object grouped is the sequence of its
\* own properties in insertion order, the order Object.values enumerates
pushMessage(grouped, message) ==
    LET key == conversationKey(message)
        g == KeyIndex(grouped, key)
    IN  IF g = 0
        THEN Append(grouped, [key |-> key, conversation |-> <<message>>])
        ELSE [grouped EXCEPT ![g].conversation = Append(@, message)]

RECURSIVE forEachMessage(_, _, _)
forEachMessage(msgs, i, grouped) ==
    IF i > Len(msgs) THEN grouped
    ELSE forEachMessage(msgs, i + 1, pushMessage(grouped, msgs[i]))

groupMessagesByConversation(msgs) == forEachMessage(msgs, 1, <<>>)

groupedMessages == groupMessagesByConversation(messages)

\* conversation[0], the oldest message of the conversation
latestMessage_First(conversation) == conversation[1]

\* conversation[conversation.length - 1]
latestMessage(conversation) == conversation[Len(conversation)]

\* the rows rendered from Object.values(groupedMessages)
conversationRows ==
    [g \in 1..Len(groupedMessages) |->
        [latestMessage |-> latestMessage(groupedMessages[g].conversation),
         count |-> Len(groupedMessages[g].conversation)]]

\* latestMessage.sender_id === user.id
isCurrentUserSender(message, who) == message.sender_id = who.id

\* the dot drawn for every conversation whose latest message is unread, the
\* messages the user sent included
unreadIndicator_OwnToo(message, who) == ~message.is_read

\* !latestMessage.is_read && !isCurrentUserSender: the dot of an unread conversation
unreadIndicator(message, who) ==
    ~message.is_read /\ ~isCurrentUserSender(message, who)

\* what a row shows of its latest message: 'To User' or 'From User', and the dot
conversationFlags ==
    [g \in 1..Len(groupedMessages) |->
        [isCurrentUserSender |->
             isCurrentUserSender(latestMessage(groupedMessages[g].conversation), user),
         unread |->
             unreadIndicator(latestMessage(groupedMessages[g].conversation), user)]]

----------------------------------------------------------------------------
(* Meetings: upcoming/past *)

\* a start_time string: the ISO 8601 text of instant t, or a text that is no date
IsoString(t) == [iso |-> t]
NotADate == [text |-> "tbd"]
StartTimes == {IsoString(t) : t \in 0..MaxTime} \cup {NotADate}

\* new Date(text): the time value of the text, NaN when it does not parse
newDate(text) ==
    IF "iso" \in DOMAIN text THEN [nan |-> FALSE, ms |-> text.iso]
    ELSE [nan |-> TRUE, ms |-> 0]

\* new Date(): the time value of the clock reading
newDateNow(reading) == [nan |-> FALSE, ms |-> reading]

\* d > e on Date objects: the time values compared, false when either is NaN
DateGreater(d, e) == ~d.nan /\ ~e.nan /\ d.ms > e.ms

\* new Date(startTime) >= new Date()
isUpcoming_OrEqual(startTime, reading) ==
    LET d == newDate(startTime) IN ~d.nan /\ d.ms >= reading

\* isUpcoming, reading being what the clock shows when new Date() is evaluated
isUpcoming(startTime, reading) ==
    DateGreater(newDate(startTime), newDateNow(reading))

\* meetings.filter(meeting => isUpcoming(...)) when wantUpcoming, and
\* meetings.filter(meeting => !isUpcoming(...)) otherwise; reads[i] is the clock
\* reading of the call made for list[i]
RECURSIVE filterMeetings(_, _, _, _)
filterMeetings(list, reads, i, wantUpcoming) ==
    IF i > Len(list) THEN <<>>
    ELSE (IF isUpcoming(list[i].start_time, reads[i]) = wantUpcoming
          THEN <<list[i]>> ELSE <<>>)
         \o filterMeetings(list, reads, i + 1, wantUpcoming)

\* the sequences of n successive readings of a clock that shows from and never
\* runs backwards
RECURSIVE ClockReadings(_, _)
ClockReadings(from, n) ==
    IF n = 0 THEN {<<>>}
    ELSE UNION {{<<r>> \o s : s \in ClockReadings(r, n - 1)} : r \in from..MaxTime}

\* the partition cached per list: a render of the list already held keeps the
\* lists of the render before
RenderMeetings_Cached(list) ==
    IF list = meetings
    THEN /\ UNCHANGED <<clockReads, upcomingMeetings, pastMeetings, now>>
         /\ prevUpcoming' = upcomingMeetings
    ELSE \E reads \in ClockReadings(now, 2 * Len(list)) :
        /\ clockReads' = reads
        /\ upcomingMeetings' =
              filterMeetings(list, SubSeq(reads, 1, Len(list)), 1, TRUE)
        /\ pastMeetings' =
              filterMeetings(list, SubSeq(reads, Len(list) + 1, 2 * Len(list)), 1, FALSE)
        /\ now' = IF reads = <<>> THEN now ELSE reads[Len(reads)]
        /\ prevUpcoming' = <<>>

\* one render of Meetings over the list: the two filter passes, each call
\* reading the clock afresh
RenderMeetings(list) ==
    \E reads \in ClockReadings(now, 2 * Len(list)) :
        /\ clockReads' = reads
        /\ upcomingMeetings' =
              filterMeetings(list, SubSeq(reads, 1, Len(list)), 1, TRUE)
        /\ pastMeetings' =
              filterMeetings(list, SubSeq(reads, Len(list) + 1, 2 * Len(list)), 1, FALSE)
        /\ now' = IF reads = <<>> THEN now ELSE reads[Len(reads)]
        /\ prevUpcoming' = IF list = meetings THEN upcomingMeetings ELSE <<>>

----------------------------------------------------------------------------
(* DocumentManagement: filter *)

\* original_filename values: "Ab", "b"
Filenames == {<<65, 98>>, <<98>>}

\* description values: "aB"
Descriptions == {<<97, 66>>}

\* document_type values of stored documents
DocumentTypes == {"contract", "report"}

\* the values of the type select: All Types, and document types
FilterTypes == {"", "contract", "other"}

\* the texts typed into the search box: "", "a", "B", "ba"
SearchTerms == {<<>>, <<97>>, <<66>>, <<98, 97>>}

\* the records GET /api/documents may hold: passed through unvalidated, so
\* original_filename and description may each be absent (an absent field reads
\* as undefined, and so does one that is null under ?.)
DocumentFields ==
    {[document_type |-> ty] : ty \in DocumentTypes}
    \cup {[document_type |-> ty, original_filename |-> f] :
            ty \in DocumentTypes, f \in Filenames}
    \cup {[document_type |-> ty, description |-> d] :
            ty \in DocumentTypes, d \in Descriptions}
    \cup {[document_type |-> ty, original_filename |-> f, description |-> d] :
            ty \in DocumentTypes, f \in Filenames, d \in Descriptions}

\* String.prototype.toLowerCase on the letters A-Z
toLowerCase(str) ==
    [k \in 1..Len(str) |-> IF str[k] >= 65 /\ str[k] <= 90 THEN str[k] + 32 ELSE str[k]]

\* String.prototype.includes
includes(str, part) ==
    \E k \in 0..(Len(str) - Len(part)) : SubSeq(str, k + 1, k + Len(part)) = part

\* a || b with both operands required
matchesSearch_And(doc, term) ==
    IF "original_filename" \notin DOMAIN doc THEN "TypeError"
    ELSE IF ~includes(toLowerCase(doc.original_filename), toLowerCase(term))
    THEN "false"
    ELSE IF "description" \notin DOMAIN doc THEN "undefined"
    ELSE IF includes(toLowerCase(doc.description), toLowerCase(term))
    THEN "true" ELSE "false"

\* matchesSearch: "TypeError" when doc.original_filename is undefined (a method
\* call on undefined), else the value of a || b, which is a when a is true and
\* else b, b being undefined when ?. finds no description
matchesSearch(doc, term) ==
    IF "original_filename" \notin DOMAIN doc THEN "TypeError"
    ELSE IF includes(toLowerCase(doc.original_filename), toLowerCase(term))
    THEN "true"
    ELSE IF "description" \notin DOMAIN doc THEN "undefined"
    ELSE IF includes(toLowerCase(doc.description), toLowerCase(term))
    THEN "true" ELSE "false"

\* doc.document_type === filterType alone
matchesType_Strict(doc, type) ==
    IF doc.document_type = type THEN "true" ELSE "false"

\* matchesType
matchesType(doc, type) ==
    IF type = "" \/ doc.document_type = type THEN "true" ELSE "false"

\* the callback of documents.filter: "TypeError" when it throws, else the value
\* of matchesSearch && matchesType, which is matchesSearch when that is falsy
filterCallback(doc, term, type) ==
    LET search == matchesSearch(doc, term)
        ofType == matchesType(doc, type)
    IN  IF search = "TypeError" THEN "TypeError"
        ELSE IF search = "true" THEN ofType
        ELSE search

\* documents.filter(callback) from index i on: the elements whose callback value
\* is truthy, in order; threw when a callback throws
RECURSIVE filterDocuments(_, _, _, _)
filterDocuments(docs, i, term, type) ==
    IF i > Len(docs) THEN [threw |-> FALSE, list |-> <<>>]
    ELSE LET value == filterCallback(docs[i], term, type) IN
         IF value = "TypeError" THEN [threw |-> TRUE, list |-> <<>>]
         ELSE LET rest == filterDocuments(docs, i + 1, term, type) IN
              IF rest.threw THEN rest
              ELSE [threw |-> FALSE,
                    list |-> (IF value = "true" THEN <<docs[i]>> ELSE <<>>) \o rest.list]

\* the render of DocumentManagement: the filter over the current state
filterRun == filterDocuments(documents, 1, searchTerm, filterType)

\* the render throws a TypeError; React then unmounts the screen
RenderThrows == filterRun.threw

filteredDocuments == filterRun.list

----------------------------------------------------------------------------
(* Application: session, routes, requests *)

\* AuthContext: no current user
NoUser == [id |-> <<>>, email |-> "", role |-> ""]

\* Login: the email and password fields, empty
NoCredentials == [email |-> "", password |-> ""]

\* the demo accounts of the two demo buttons
AdminDemo == [email |-> "admin@demo.com", password |-> "admin123"]
MemberDemo == [email |-> "member@demo.com", password |-> "member123"]
DemoAccounts == {AdminDemo, MemberDemo}

\* what is typed into the login form: a demo account, or a wrong password
TypedCredentials == {AdminDemo, [email |-> "admin@demo.com", password |-> "wrong"]}

\* the user POST /api/auth/login returns for an account
BackendUser(account) ==
    IF account.email = "admin@demo.com"
    THEN [id |-> <<97>>, email |-> account.email, role |-> "admin"]
    ELSE [id |-> <<98>>, email |-> account.email, role |-> "family_member"]

\* the families GET /api/families returns
srvFamilies == <<[id |-> "f1", name |-> "Family One"]>>

\* the locations navigated to; "/families" has no Route of its own
Paths == {"/login", "/", "/documents", "/messages", "/meetings", "/families"}

\* Routes: the paths that have a Route element
RoutePaths == {"/login", "/", "/documents", "/messages", "/meetings"}

\* Routes with /documents left outside ProtectedRoute
Protected_DocumentsOpen(path) == path \in {"/", "/messages", "/meetings"}

\* Routes: the paths whose element is wrapped in ProtectedRoute
Protected(path) == path \in {"/", "/documents", "/messages", "/meetings"}

\* Route path="*": Navigate to "/"
MatchRoute(path) == IF path \in RoutePaths THEN path ELSE "/"

\* ProtectedRoute: the children when authenticated, else Navigate to /login
ProtectedRoute(path, authenticated) == IF authenticated THEN path ELSE "/login"

\* Login with the redirect left out
LoginRedirect_Stay(authenticated) == "/login"

\* Login: if (isAuthenticated) return <Navigate to="/" replace />
LoginRedirect(authenticated) == IF authenticated THEN "/" ELSE "/login"

\* the location shown after navigating to path
Resolve(path, authenticated) ==
    LET matched == MatchRoute(path) IN
    IF matched = "/login" THEN LoginRedirect(authenticated)
    ELSE IF Protected(matched) THEN ProtectedRoute(matched, authenticated)
    ELSE matched

\* the value of an input type="datetime-local" left empty, and set
Blank == [text |-> ""]
LocalTime(t) == [local |-> t]

\* the state of a screen that has no form
NoForm == [none |-> TRUE]

\* the useState initial value of the form of the screen at path
InitialForm(path, who) ==
    IF path = "/messages"
    THEN [newMessage |-> <<>>, selectedRecipient |-> <<>>, selectedFamily |-> ""]
    ELSE IF path = "/documents"
    THEN [file |-> <<>>, document_type |-> "other", description |-> <<>>, tags |-> "",
          selectedFamily |-> ""]
    ELSE IF path = "/meetings"
    THEN [title |-> "", description |-> <<>>, start_time |-> Blank, end_time |-> Blank,
          family_id |-> "", advisor_id |-> who.id, meeting_link |-> ""]
    ELSE NoForm

\* a request of the handler by, in flight; live until the screen that issued it
\* is unmounted
Request(kind, by, body) == [kind |-> kind, by |-> by, body |-> body, live |-> TRUE]

NoBody == [none |-> TRUE]

\* useEffect(..., []): the requests a screen issues when it mounts
MountRequests(path) ==
    IF path = "/"
    THEN <<Request("GET /api/documents", "fetchDashboardData", NoBody),
           Request("GET /api/messages", "fetchDashboardData", NoBody),
           Request("GET /api/meetings", "fetchDashboardData", NoBody),
           Request("GET /api/families", "fetchDashboardData", NoBody)>>
    ELSE IF path = "/documents"
    THEN <<Request("GET /api/documents", "fetchDocuments", NoBody),
           Request("GET /api/families", "fetchFamilies", NoBody)>>
    ELSE IF path = "/messages"
    THEN <<Request("GET /api/messages", "fetchMessages", NoBody),
           Request("GET /api/families", "fetchFamilies", NoBody)>>
    ELSE IF path = "/meetings"
    THEN <<Request("GET /api/meetings", "fetchMeetings", NoBody),
           Request("GET /api/families", "fetchFamilies", NoBody)>>
    ELSE <<>>

\* the handlers that run on an action of the user
UserHandlers ==
    {"handleSubmit", "handleDemoLogin", "sendMessage", "handleFileUpload",
     "handleDownload", "createMeeting"}

\* the number of requests in flight that the user's actions have issued
InFlight == Cardinality({k \in 1..Len(pending) : pending[k].by \in UserHandlers})

\* the requests in flight aborted by a cleanup of the effect
Orphaned_Cancelled(requests) == <<>>

\* the requests in flight once their screen is unmounted: none is cancelled
Orphaned(requests) == [k \in 1..Len(requests) |-> [requests[k] EXCEPT !.live = FALSE]]

\* the requests in flight without the k-th
RemoveAt(requests, k) == SubSeq(requests, 1, k - 1) \o SubSeq(requests, k + 1, Len(requests))

\* the number of requests of the kind in flight
InFlightOf(requests, kind) ==
    Cardinality({k \in 1..Len(requests) : requests[k].kind = kind})

\* Dashboard: no response of the Promise.all yet
NoResponse == [got |-> FALSE, data |-> <<>>]

InitialJoin ==
    [settled |-> FALSE, documents |-> NoResponse, messages |-> NoResponse,
     meetings |-> NoResponse, families |-> NoResponse]

InitialStats == [documents |-> 0, messages |-> 0, meetings |-> 0, families |-> 0]

\* the screen at path mounts: every useState at its initial value, the requests
\* of the screen left behind orphaned, the mount requests issued
Mount(path, who, inflight) ==
    /\ route' = path
    /\ loading' = TRUE
    /\ busy' = FALSE
    /\ credentials' = NoCredentials
    /\ messages' = <<>>
    /\ documents' = <<>>
    /\ meetings' = <<>>
    /\ families' = <<>>
    /\ searchTerm' = <<>>
    /\ filterType' = ""
    /\ showModal' = FALSE
    /\ form' = InitialForm(path, who)
    /\ stats' = InitialStats
    /\ recentDocuments' = <<>>
    /\ recentMessages' = <<>>
    /\ dashUpcoming' = <<>>
    /\ dashJoin' = InitialJoin
    /\ clockReads' = <<>>
    /\ upcomingMeetings' = <<>>
    /\ pastMeetings' = <<>>
    /\ prevUpcoming' = <<>>
    /\ pending' = Orphaned(inflight) \o MountRequests(path)
    /\ Len(inflight) <= MaxOrphans

----------------------------------------------------------------------------
(* Mount state *)

Init ==
    /\ srvMessages = <<>>
    /\ messages = <<>>
    /\ srvMeetings = <<>>
    /\ meetings = <<>>
    /\ now = 0
    /\ clockReads = <<>>
    /\ upcomingMeetings = <<>>
    /\ pastMeetings = <<>>
    /\ prevUpcoming = <<>>
    /\ srvDocuments = <<>>
    /\ documents = <<>>
    /\ searchTerm = <<>>
    /\ filterType = ""
    /\ loading = TRUE
    /\ route = "/"
    /\ user = BackendUser(AdminDemo)
    /\ isAuthenticated = TRUE
    /\ credentials = NoCredentials
    /\ busy = FALSE
    /\ pending = <<>>
    /\ notified = <<>>
    /\ families = <<>>
    /\ showModal = FALSE
    /\ form = NoForm
    /\ stats = InitialStats
    /\ recentDocuments = <<>>
    /\ recentMessages = <<>>
    /\ dashUpcoming = <<>>
    /\ dashJoin = InitialJoin

----------------------------------------------------------------------------
(* Messages screen *)

\* the backend stores a message (POST /api/messages of this or another user)
BackendStoresMessage ==
    /\ Len(srvMessages) < MaxMessages
    /\ \E s \in ParticipantIds, r \in ParticipantIds, t \in Timestamps :
          srvMessages' = Append(srvMessages,
              [id |-> Len(srvMessages) + 1, sender_id |-> s, recipient_id |-> r,
               created_at |-> t])
    /\ UNCHANGED <<appVars, messages, meetVars, docVars, loading>>

\* fetchMessages, the GET resolving
FetchMessagesOk ==
    /\ messages' = srvMessages
    /\ loading' = FALSE
    /\ UNCHANGED <<appVars, srvMessages, meetVars, docVars>>

\* fetchMessages, the GET rejecting
FetchMessagesFail ==
    /\ loading' = FALSE
    /\ UNCHANGED <<appVars, msgVars, meetVars, docVars>>

NextMessages == BackendStoresMessage \/ FetchMessagesOk \/ FetchMessagesFail

SpecMessages == Init /\ [][NextMessages]_vars

----------------------------------------------------------------------------
(* Meetings screen *)

\* the backend stores a meeting (POST /api/meetings of this or another user)
BackendStoresMeeting ==
    /\ Len(srvMeetings) < MaxMeetings
    /\ \E st \in StartTimes :
          srvMeetings' = Append(srvMeetings,
              [id |-> Len(srvMeetings) + 1, start_time |-> st])
    /\ UNCHANGED <<appVars, meetings, now, clockReads, upcomingMeetings, pastMeetings,
                   prevUpcoming, msgVars, docVars, loading>>

\* time passes
Tick ==
    /\ now < MaxTime
    /\ now' = now + 1
    /\ UNCHANGED <<appVars, srvMeetings, meetings, clockReads, upcomingMeetings, pastMeetings,
                   prevUpcoming, msgVars, docVars, loading>>

\* fetchMeetings, the GET resolving: setMeetings, setLoading(false), re-render
FetchMeetingsOk ==
    /\ meetings' = srvMeetings
    /\ loading' = FALSE
    /\ RenderMeetings(srvMeetings)
    /\ UNCHANGED <<appVars, srvMeetings, msgVars, docVars>>

\* fetchMeetings, the GET rejecting: setLoading(false), re-render
FetchMeetingsFail ==
    /\ loading' = FALSE
    /\ RenderMeetings(meetings)
    /\ UNCHANGED <<appVars, srvMeetings, meetings, msgVars, docVars>>

\* a state update that leaves meetings alone (the modal opened or closed, a form
\* field typed into): re-render
Rerender ==
    /\ ~loading
    /\ RenderMeetings(meetings)
    /\ UNCHANGED <<appVars, srvMeetings, meetings, msgVars, docVars, loading>>

NextMeetings ==
    BackendStoresMeeting \/ Tick \/ FetchMeetingsOk \/ FetchMeetingsFail \/ Rerender

SpecMeetings == Init /\ [][NextMeetings]_vars

----------------------------------------------------------------------------
(* DocumentManagement screen *)

\* the backend stores a document (POST /api/documents/upload of this or another user)
BackendStoresDocument ==
    /\ Len(srvDocuments) < MaxDocuments
    /\ \E fields \in DocumentFields :
          srvDocuments' = Append(srvDocuments,
              [f \in DOMAIN fields \cup {"id"} |->
                  IF f = "id" THEN Len(srvDocuments) + 1 ELSE fields[f]])
    /\ UNCHANGED <<appVars, documents, searchTerm, filterType, msgVars, meetVars, loading>>

\* fetchDocuments, the GET resolving
FetchDocumentsOk ==
    /\ ~RenderThrows
    /\ documents' = srvDocuments
    /\ loading' = FALSE
    /\ UNCHANGED <<appVars, srvDocuments, searchTerm, filterType, msgVars, meetVars>>

\* fetchDocuments, the GET rejecting
FetchDocumentsFail ==
    /\ ~RenderThrows
    /\ loading' = FALSE
    /\ UNCHANGED <<appVars, docVars, msgVars, meetVars>>

\* the search box: onChange={(e) => setSearchTerm(e.target.value)}
SetSearchTerm ==
    /\ ~loading /\ ~RenderThrows
    /\ \E term \in SearchTerms : searchTerm' = term
    /\ notified' = <<>>
    /\ UNCHANGED <<route, authVars, credentials, busy, pending, families, formVars,
                   dashVars, srvDocuments, documents, filterType, msgVars, meetVars,
                   loading>>

\* the type select: onChange={(e) => setFilterType(e.target.value)}
SetFilterType ==
    /\ ~loading /\ ~RenderThrows
    /\ \E type \in FilterTypes : filterType' = type
    /\ notified' = <<>>
    /\ UNCHANGED <<route, authVars, credentials, busy, pending, families, formVars,
                   dashVars, srvDocuments, documents, searchTerm, msgVars, meetVars,
                   loading>>

NextDocuments ==
    \/ BackendStoresDocument
    \/ FetchDocumentsOk
    \/ FetchDocumentsFail
    \/ SetSearchTerm
    \/ SetFilterType

SpecDocuments == Init /\ [][NextDocuments]_vars

----------------------------------------------------------------------------
(* The application: one mounted screen, requests in flight *)

\* toast.success(text) / toast.error(text)
Toast(level, text) == [level |-> level, text |-> text]

\* list.slice(from, to)
slice(list, from, to) ==
    SubSeq(list, from + 1, IF to < Len(list) THEN to ELSE Len(list))

\* the number of recent items the Dashboard keeps of each list
RecentCount == 5

\* the backend when the application is opened: nothing stored, or one record
\* of each kind
StoredAtStart ==
    {[messages |-> <<>>, meetings |-> <<>>, documents |-> <<>>],
     [messages |-> <<[id |-> 1, sender_id |-> <<98>>, recipient_id |-> <<97>>,
                      created_at |-> 1]>>,
      meetings |-> <<[id |-> 1, start_time |-> IsoString(MaxTime + 1)]>>,
      documents |-> <<[id |-> 1, original_filename |-> <<65, 98>>,
                       document_type |-> "report", description |-> <<97, 66>>]>>]}

\* the application is opened at path: the session is restored from the
\* persisted one, or there is none; the Router shows the screen of the path or
\* redirects; the clock is held at MaxTime
OpenedAt(path, authenticated, stored) ==
    /\ isAuthenticated = authenticated
    /\ user = IF authenticated THEN BackendUser(AdminDemo) ELSE NoUser
    /\ route = Resolve(path, authenticated)
    /\ srvMessages = stored.messages
    /\ srvMeetings = stored.meetings
    /\ srvDocuments = stored.documents
    /\ now = MaxTime
    /\ messages = <<>>
    /\ documents = <<>>
    /\ meetings = <<>>
    /\ families = <<>>
    /\ clockReads = <<>>
    /\ upcomingMeetings = <<>>
    /\ pastMeetings = <<>>
    /\ prevUpcoming = <<>>
    /\ searchTerm = <<>>
    /\ filterType = ""
    /\ loading = TRUE
    /\ busy = FALSE
    /\ credentials = NoCredentials
    /\ showModal = FALSE
    /\ form = InitialForm(route, user)
    /\ stats = InitialStats
    /\ recentDocuments = <<>>
    /\ recentMessages = <<>>
    /\ dashUpcoming = <<>>
    /\ dashJoin = InitialJoin
    /\ pending = MountRequests(route)
    /\ notified = <<>>

InitSession ==
    \E path \in Paths, authenticated \in BOOLEAN, stored \in StoredAtStart :
        OpenedAt(path, authenticated, stored)

InitScreens ==
    \E path \in {"/messages", "/documents", "/meetings"}, stored \in StoredAtStart :
        OpenedAt(path, TRUE, stored)

\* the user follows a link or enters a location other than the one shown: the
\* screen shown is unmounted, and the one the Router resolves the path to mounts
Navigate(path) ==
    /\ path # route
    /\ Mount(Resolve(path, isAuthenticated), user, pending)
    /\ notified' = <<>>
    /\ UNCHANGED <<srvVars, now, authVars>>

\* AuthContext: logout, or the session is rejected: the state is cleared, and
\* ProtectedRoute redirects to /login
Logout ==
    /\ isAuthenticated
    /\ user' = NoUser
    /\ isAuthenticated' = FALSE
    /\ Mount(Resolve(route, FALSE), NoUser, pending)
    /\ notified' = <<>>
    /\ UNCHANGED <<srvVars, now>>

\* Login: the email and password inputs
SetCredentials(typed) ==
    /\ route = "/login"
    /\ credentials # typed
    /\ credentials' = typed
    /\ notified' = <<>>
    /\ UNCHANGED <<srvVars, now, authVars, route, loading, busy, pending, listVars,
                   formVars, dashVars>>

\* Login.handleSubmit up to the await: both inputs are required, the button is
\* disabled while loading
handleSubmit ==
    /\ route = "/login"
    /\ ~busy
    /\ credentials # NoCredentials
    /\ InFlight < MaxInFlight
    /\ busy' = TRUE
    /\ pending' = Append(pending, Request("POST /api/auth/login", "handleSubmit", credentials))
    /\ notified' = <<>>
    /\ UNCHANGED <<srvVars, now, authVars, route, loading, credentials, listVars,
                   formVars, dashVars>>

\* Login.handleDemoLogin up to the await
handleDemoLogin(account) ==
    /\ route = "/login"
    /\ ~busy
    /\ InFlight < MaxInFlight
    /\ credentials' = account
    /\ busy' = TRUE
    /\ pending' = Append(pending, Request("POST /api/auth/login", "handleDemoLogin", account))
    /\ notified' = <<>>
    /\ UNCHANGED <<srvVars, now, authVars, route, loading, listVars, formVars, dashVars>>

\* the toast of a login that succeeded
LoginSuccessText(by) ==
    IF by = "handleSubmit" THEN "Login successful!" ELSE "Demo login successful!"

\* the toast of a login that threw
LoginThrownText(by) ==
    IF by = "handleSubmit" THEN "Login failed. Please try again."
    ELSE "Demo login failed. Please try again."

\* the local state of the mounted screen
screenVars == <<route, loading, busy, credentials, listVars, formVars, dashVars>>

\* AuthContext.login accepts the credentials: the user is stored and the flag
\* set; the handler raises the success toast; Login, rendered again with the
\* flag set, redirects to "/"
LoginSucceeds(k) ==
    /\ k \in 1..Len(pending)
    /\ pending[k].kind = "POST /api/auth/login"
    /\ pending[k].body \in DemoAccounts
    /\ user' = BackendUser(pending[k].body)
    /\ isAuthenticated' = TRUE
    /\ notified' = <<Toast("success", LoginSuccessText(pending[k].by))>>
    /\ IF route = "/login"
       THEN Mount(LoginRedirect(TRUE), user', RemoveAt(pending, k))
       ELSE /\ pending' = RemoveAt(pending, k)
            /\ UNCHANGED screenVars
    /\ UNCHANGED <<srvVars, now>>

\* AuthContext.login returns {success: false, error}: the state is left alone,
\* the handler raises result.error, finally setLoading(false)
LoginRefused(k) ==
    /\ k \in 1..Len(pending)
    /\ pending[k].kind = "POST /api/auth/login"
    /\ pending[k].body \notin DemoAccounts
    /\ notified' = <<Toast("error", "Invalid credentials")>>
    /\ busy' = IF pending[k].live THEN FALSE ELSE busy
    /\ pending' = RemoveAt(pending, k)
    /\ UNCHANGED <<srvVars, now, authVars, route, loading, credentials, listVars,
                   formVars, dashVars>>

\* Login.handleSubmit / handleDemoLogin with a catch that raises nothing
LoginThrows_Silent(k) ==
    /\ k \in 1..Len(pending)
    /\ pending[k].kind = "POST /api/auth/login"
    /\ notified' = <<>>
    /\ busy' = IF pending[k].live THEN FALSE ELSE busy
    /\ pending' = RemoveAt(pending, k)
    /\ UNCHANGED <<srvVars, now, authVars, route, loading, credentials, listVars,
                   formVars, dashVars>>

\* the await of login throws: catch raises the handler's own text, finally
\* setLoading(false)
LoginThrows(k) ==
    /\ k \in 1..Len(pending)
    /\ pending[k].kind = "POST /api/auth/login"
    /\ notified' = <<Toast("error", LoginThrownText(pending[k].by))>>
    /\ busy' = IF pending[k].live THEN FALSE ELSE busy
    /\ pending' = RemoveAt(pending, k)
    /\ UNCHANGED <<srvVars, now, authVars, route, loading, credentials, listVars,
                   formVars, dashVars>>

\* the Promise.all slot of a Dashboard read
JoinFields == {"documents", "messages", "meetings", "families"}

JoinField(kind) ==
    CASE kind = "GET /api/documents" -> "documents"
      [] kind = "GET /api/messages" -> "messages"
      [] kind = "GET /api/meetings" -> "meetings"
      [] kind = "GET /api/families" -> "families"

\* response.data of a GET answered now
ResponseData(kind) ==
    CASE kind = "GET /api/documents" -> srvDocuments
      [] kind = "GET /api/messages" -> srvMessages
      [] kind = "GET /api/meetings" -> srvMeetings
      [] kind = "GET /api/families" -> srvFamilies

\* response.data of the read r answered now: the collection as the backend
\* held it at some instant while the read was in flight.  A read issued on
\* mount is answered before its screen offers any POST; a re-fetch records how
\* many records the backend held when it was issued
Responses(r) ==
    LET held == ResponseData(r.kind)
    IN  IF "after" \in DOMAIN r.body
        THEN {SubSeq(held, 1, n) : n \in r.body.after..Len(held)}
        ELSE {held}

\* the reads in flight when the k-th delivers its response: the re-fetches of
\* the same handler issued before it, which stand before it, are superseded
Superseding(requests, k) ==
    [j \in 1..Len(requests) |->
        IF j < k /\ requests[j].by = requests[k].by /\ requests[j].live
              /\ "after" \in DOMAIN requests[j].body
        THEN [requests[j] EXCEPT !.body.superseded = TRUE]
        ELSE requests[j]]

\* fetchDashboardData, the try block after the await with every response in at
\* once: a failure of the join that sets nothing
SetDashboard_Partial(joined) ==
    /\ stats' = stats
    /\ recentDocuments' = recentDocuments
    /\ recentMessages' = slice(joined.messages.data, 0, RecentCount)
    /\ dashUpcoming' = dashUpcoming

\* fetchDashboardData, the try block after the await: the four responses are
\* applied together
SetDashboard(joined) ==
    /\ stats' = [documents |-> Len(joined.documents.data),
                 messages |-> Len(joined.messages.data),
                 meetings |-> Len(joined.meetings.data),
                 families |-> Len(joined.families.data)]
    /\ recentDocuments' = slice(joined.documents.data, 0, RecentCount)
    /\ recentMessages' = slice(joined.messages.data, 0, RecentCount)
    /\ dashUpcoming' = slice(joined.meetings.data, 0, RecentCount)

\* one of the four Dashboard reads is answered; Promise.all resolves with the
\* last of them, and finally clears loading
DashboardResolves(k) ==
    /\ k \in 1..Len(pending)
    /\ pending[k].by = "fetchDashboardData"
    /\ LET r == pending[k]
           joined == [dashJoin EXCEPT ![JoinField(r.kind)] =
                         [got |-> TRUE, data |-> ResponseData(r.kind)]]
       IN  IF r.live /\ ~dashJoin.settled
           THEN IF \A f \in JoinFields : joined[f].got
                THEN /\ SetDashboard(joined)
                     /\ dashJoin' = [joined EXCEPT !.settled = TRUE]
                     /\ loading' = FALSE
                ELSE /\ dashJoin' = joined
                     /\ UNCHANGED <<stats, recentDocuments, recentMessages,
                                    dashUpcoming, loading>>
           ELSE UNCHANGED <<dashVars, loading>>
    /\ pending' = RemoveAt(pending, k)
    /\ notified' = <<>>
    /\ UNCHANGED <<srvVars, now, authVars, route, busy, credentials, listVars, formVars>>

\* one of the four Dashboard reads fails; Promise.all rejects with the first
\* failure: catch logs to the console, finally clears loading
DashboardRejects(k) ==
    /\ k \in 1..Len(pending)
    /\ pending[k].by = "fetchDashboardData"
    /\ IF pending[k].live /\ ~dashJoin.settled
       THEN /\ dashJoin' = [dashJoin EXCEPT !.settled = TRUE]
            /\ loading' = FALSE
       ELSE UNCHANGED <<dashJoin, loading>>
    /\ pending' = RemoveAt(pending, k)
    /\ notified' = <<>>
    /\ UNCHANGED <<srvVars, now, authVars, route, busy, credentials, listVars, formVars,
                   stats, recentDocuments, recentMessages, dashUpcoming>>

\* Messages.fetchMessages, the GET answered
FetchMessagesResolves(k) ==
    /\ k \in 1..Len(pending)
    /\ pending[k].by = "fetchMessages"
    /\ IF pending[k].live
       THEN /\ \E data \in Responses(pending[k]) : messages' = data
            /\ loading' = FALSE
            /\ pending' = RemoveAt(Superseding(pending, k), k)
       ELSE /\ UNCHANGED <<messages, loading>>
            /\ pending' = RemoveAt(pending, k)
    /\ notified' = <<>>
    /\ UNCHANGED <<srvVars, now, authVars, route, busy, credentials, documents,
                   meetings, families, clockReads, upcomingMeetings, pastMeetings,
                   prevUpcoming, searchTerm, filterType, formVars, dashVars>>

\* Messages.fetchMessages, the catch with the list reset to empty
FetchMessagesRejects_Clearing(k) ==
    /\ k \in 1..Len(pending)
    /\ pending[k].by = "fetchMessages"
    /\ notified' = <<Toast("error", "Failed to fetch messages")>>
    /\ messages' = <<>>
    /\ loading' = IF pending[k].live THEN FALSE ELSE loading
    /\ pending' = RemoveAt(pending, k)
    /\ UNCHANGED <<srvVars, now, authVars, route, busy, credentials, documents,
                   meetings, families, clockReads, upcomingMeetings, pastMeetings,
                   prevUpcoming, searchTerm, filterType, formVars, dashVars>>

\* Messages.fetchMessages, the GET failing: catch raises a toast, finally
\* clears loading
FetchMessagesRejects(k) ==
    /\ k \in 1..Len(pending)
    /\ pending[k].by = "fetchMessages"
    /\ notified' = <<Toast("error", "Failed to fetch messages")>>
    /\ loading' = IF pending[k].live THEN FALSE ELSE loading
    /\ pending' = RemoveAt(pending, k)
    /\ UNCHANGED <<srvVars, now, authVars, route, busy, credentials, listVars,
                   formVars, dashVars>>

\* DocumentManagement.fetchDocuments, the GET answered
FetchDocumentsResolves(k) ==
    /\ k \in 1..Len(pending)
    /\ pending[k].by = "fetchDocuments"
    /\ IF pending[k].live
       THEN /\ \E data \in Responses(pending[k]) : documents' = data
            /\ loading' = FALSE
            /\ pending' = RemoveAt(Superseding(pending, k), k)
       ELSE /\ UNCHANGED <<documents, loading>>
            /\ pending' = RemoveAt(pending, k)
    /\ notified' = <<>>
    /\ UNCHANGED <<srvVars, now, authVars, route, busy, credentials, messages,
                   meetings, families, clockReads, upcomingMeetings, pastMeetings,
                   prevUpcoming, searchTerm, filterType, formVars, dashVars>>

\* DocumentManagement.fetchDocuments, the GET failing
FetchDocumentsRejects(k) ==
    /\ k \in 1..Len(pending)
    /\ pending[k].by = "fetchDocuments"
    /\ notified' = <<Toast("error", "Failed to fetch documents")>>
    /\ loading' = IF pending[k].live THEN FALSE ELSE loading
    /\ pending' = RemoveAt(pending, k)
    /\ UNCHANGED <<srvVars, now, authVars, route, busy, credentials, listVars,
                   formVars, dashVars>>

\* Meetings.fetchMeetings, the GET answered; the screen renders the new list
FetchMeetingsResolves(k) ==
    /\ k \in 1..Len(pending)
    /\ pending[k].by = "fetchMeetings"
    /\ IF pending[k].live
       THEN /\ \E data \in Responses(pending[k]) : meetings' = data
            /\ RenderMeetings(meetings')
            /\ loading' = FALSE
            /\ pending' = RemoveAt(Superseding(pending, k), k)
       ELSE /\ UNCHANGED <<meetVars, loading>>
            /\ pending' = RemoveAt(pending, k)
    /\ notified' = <<>>
    /\ UNCHANGED <<srvVars, authVars, route, busy, credentials, messages, documents,
                   families, searchTerm, filterType, formVars, dashVars>>

\* Meetings.fetchMeetings, the GET failing, with setLoading(false) at the end of
\* the try block instead of in finally
FetchMeetingsRejects_NoFinally(k) ==
    /\ k \in 1..Len(pending)
    /\ pending[k].by = "fetchMeetings"
    /\ notified' = <<Toast("error", "Failed to fetch meetings")>>
    /\ loading' = loading
    /\ pending' = RemoveAt(pending, k)
    /\ UNCHANGED <<srvVars, now, authVars, route, busy, credentials, listVars,
                   formVars, dashVars>>

\* Meetings.fetchMeetings, the GET failing
FetchMeetingsRejects(k) ==
    /\ k \in 1..Len(pending)
    /\ pending[k].by = "fetchMeetings"
    /\ notified' = <<Toast("error", "Failed to fetch meetings")>>
    /\ loading' = IF pending[k].live THEN FALSE ELSE loading
    /\ pending' = RemoveAt(pending, k)
    /\ UNCHANGED <<srvVars, now, authVars, route, busy, credentials, listVars,
                   formVars, dashVars>>

\* fetchFamilies of Messages, DocumentManagement and Meetings, the GET answered
FetchFamiliesResolves(k) ==
    /\ k \in 1..Len(pending)
    /\ pending[k].by = "fetchFamilies"
    /\ families' = IF pending[k].live THEN ResponseData(pending[k].kind) ELSE families
    /\ pending' = RemoveAt(pending, k)
    /\ notified' = <<>>
    /\ UNCHANGED <<srvVars, now, authVars, route, busy, credentials, loading, messages,
                   documents, meetings, clockReads, upcomingMeetings, pastMeetings,
                   prevUpcoming, searchTerm, filterType, formVars, dashVars>>

\* fetchFamilies, the GET failing: catch logs to the console, and that is all
FetchFamiliesRejects(k) ==
    /\ k \in 1..Len(pending)
    /\ pending[k].by = "fetchFamilies"
    /\ pending' = RemoveAt(pending, k)
    /\ notified' = <<>>
    /\ UNCHANGED <<srvVars, now, authVars, route, busy, credentials, loading, listVars,
                   formVars, dashVars>>

\* the "New Message" / "Upload Document" / "Schedule Meeting" button
OpenModal ==
    /\ route \in {"/messages", "/documents", "/meetings"}
    /\ ~loading
    /\ ~showModal
    /\ showModal' = TRUE
    /\ notified' = <<>>
    /\ UNCHANGED <<srvVars, now, authVars, route, busy, credentials, loading, pending,
                   listVars, form, dashVars>>

\* the Cancel button of the modal: the form keeps what was typed
CloseModal ==
    /\ showModal
    /\ showModal' = FALSE
    /\ notified' = <<>>
    /\ UNCHANGED <<srvVars, now, authVars, route, busy, credentials, loading, pending,
                   listVars, form, dashVars>>

\* the ids offered by the family select: families.map(family => <option ...>)
FamilyOptions == {families[i].id : i \in 1..Len(families)}

\* what the user may have typed into the form of the screen at path, a family
\* selected: all required fields, or the first one blank
Drafts(path, who) ==
    IF path = "/messages"
    THEN {[newMessage |-> text, selectedRecipient |-> <<98>>, selectedFamily |-> family] :
             text \in {<<104, 105>>, <<32>>}, family \in FamilyOptions}
    ELSE IF path = "/documents"
    THEN {[file |-> file, document_type |-> "contract", description |-> <<97, 66>>,
           tags |-> "", selectedFamily |-> family] :
             file \in {<<65, 98>>, <<>>}, family \in FamilyOptions}
    ELSE IF path = "/meetings"
    THEN {[title |-> title, description |-> <<>>, start_time |-> LocalTime(MaxTime + 1),
           end_time |-> LocalTime(MaxTime + 2), family_id |-> family,
           advisor_id |-> who.id, meeting_link |-> ""] :
             title \in {"Review", ""}, family \in FamilyOptions}
    ELSE {}

\* the onChange handlers of the inputs of the open modal
SetForm(draft) ==
    /\ showModal
    /\ form # draft
    /\ form' = draft
    /\ notified' = <<>>
    /\ UNCHANGED <<srvVars, now, authVars, route, busy, credentials, loading, pending,
                   listVars, showModal, dashVars>>

\* the code unit of ' '
Space == 32

\* the text left as typed
trim_Identity(text) == text

\* text.trim(), for text with spaces as its only white space
RECURSIVE trim(_)
trim(text) ==
    IF text = <<>> THEN text
    ELSE IF Head(text) = Space THEN trim(Tail(text))
    ELSE IF text[Len(text)] = Space THEN trim(SubSeq(text, 1, Len(text) - 1))
    ELSE text

\* the request in flight k answered, with the follow-up requests issued by the
\* handler on its way out
Answered(k, followUp) == RemoveAt(pending, k) \o followUp

\* a re-fetch issued by a handler that resumed after the request r, the
\* backend holding held records of the collection by then
Following(r, kind, by, held) ==
    [Request(kind, by, [after |-> held, superseded |-> FALSE]) EXCEPT !.live = r.live]

\* Messages.sendMessage up to the await: the validation, then the POST
sendMessage ==
    /\ route = "/messages"
    /\ showModal
    /\ IF trim(form.newMessage) = <<>> \/ form.selectedRecipient = <<>>
          \/ form.selectedFamily = ""
       THEN /\ notified' = <<Toast("error", "Please fill all fields")>>
            /\ UNCHANGED pending
       ELSE /\ InFlightOf(pending, "POST /api/messages") < MaxSends
            /\ pending' = Append(pending, Request("POST /api/messages", "sendMessage",
                              [content |-> form.newMessage,
                               recipient_id |-> form.selectedRecipient,
                               family_id |-> form.selectedFamily,
                               sender_id |-> user.id]))
            /\ notified' = <<>>
    /\ UNCHANGED <<srvVars, now, authVars, route, busy, credentials, loading,
                   listVars, formVars, dashVars>>

\* Messages.sendMessage after the await with the re-fetch left out
SendMessageResolves_NoRefetch(k) ==
    /\ k \in 1..Len(pending)
    /\ pending[k].by = "sendMessage"
    /\ Len(srvMessages) < MaxMessages
    /\ srvMessages' = Append(srvMessages,
           [id |-> Len(srvMessages) + 1, sender_id |-> pending[k].body.sender_id,
            recipient_id |-> pending[k].body.recipient_id,
            created_at |-> Len(srvMessages) + 1])
    /\ notified' = <<Toast("success", "Message sent successfully")>>
    /\ IF pending[k].live
       THEN /\ form' = [newMessage |-> <<>>, selectedRecipient |-> <<>>,
                        selectedFamily |-> ""]
            /\ showModal' = FALSE
       ELSE UNCHANGED formVars
    /\ pending' = Answered(k, <<>>)
    /\ UNCHANGED <<srvMeetings, srvDocuments, now, authVars, route, busy, credentials,
                   loading, listVars, dashVars>>

\* Messages.sendMessage after the await, the POST answered: the backend has
\* stored the message; toast, the form cleared, the modal closed, fetchMessages()
SendMessageResolves(k) ==
    /\ k \in 1..Len(pending)
    /\ pending[k].by = "sendMessage"
    /\ Len(srvMessages) < MaxMessages
    /\ srvMessages' = Append(srvMessages,
           [id |-> Len(srvMessages) + 1, sender_id |-> pending[k].body.sender_id,
            recipient_id |-> pending[k].body.recipient_id,
            created_at |-> Len(srvMessages) + 1])
    /\ notified' = <<Toast("success", "Message sent successfully")>>
    /\ IF pending[k].live
       THEN /\ form' = [newMessage |-> <<>>, selectedRecipient |-> <<>>,
                        selectedFamily |-> ""]
            /\ showModal' = FALSE
       ELSE UNCHANGED formVars
    /\ pending' = Answered(k, <<Following(pending[k], "GET /api/messages", "fetchMessages",
                                       Len(srvMessages'))>>)
    /\ UNCHANGED <<srvMeetings, srvDocuments, now, authVars, route, busy, credentials,
                   loading, listVars, dashVars>>

\* Messages.sendMessage, the catch with the form cleared as on success
SendMessageRejects_Clearing(k) ==
    /\ k \in 1..Len(pending)
    /\ pending[k].by = "sendMessage"
    /\ notified' = <<Toast("error", "Failed to send message")>>
    /\ form' = IF pending[k].live
               THEN [newMessage |-> <<>>, selectedRecipient |-> <<>>, selectedFamily |-> ""]
               ELSE form
    /\ pending' = Answered(k, <<>>)
    /\ UNCHANGED <<srvVars, now, authVars, route, busy, credentials, loading,
                   listVars, showModal, dashVars>>

\* Messages.sendMessage, the POST failing: catch raises a toast, and that is all
SendMessageRejects(k) ==
    /\ k \in 1..Len(pending)
    /\ pending[k].by = "sendMessage"
    /\ notified' = <<Toast("error", "Failed to send message")>>
    /\ pending' = Answered(k, <<>>)
    /\ UNCHANGED <<srvVars, now, authVars, route, busy, credentials, loading,
                   listVars, formVars, dashVars>>

\* the form of DocumentManagement after setUploadForm({...}) and
\* setSelectedFamily('')
ClearedUpload ==
    [file |-> <<>>, document_type |-> "other", description |-> <<>>, tags |-> "",
     selectedFamily |-> ""]

\* DocumentManagement.handleFileUpload up to the await: the validation, then
\* setUploading(true) and the POST; the submit button is disabled while uploading
handleFileUpload ==
    /\ route = "/documents"
    /\ showModal
    /\ ~busy
    /\ IF form.file = <<>> \/ form.selectedFamily = ""
       THEN /\ notified' = <<Toast("error", "Please select a file and family")>>
            /\ UNCHANGED <<pending, busy>>
       ELSE /\ InFlight < MaxInFlight
            /\ busy' = TRUE
            /\ pending' = Append(pending, Request("POST /api/documents/upload",
                              "handleFileUpload",
                              [file |-> form.file, document_type |-> form.document_type,
                               description |-> form.description,
                               family_id |-> form.selectedFamily]))
            /\ notified' = <<>>
    /\ UNCHANGED <<srvVars, now, authVars, route, credentials, loading, listVars,
                   formVars, dashVars>>

\* DocumentManagement.handleFileUpload after the await, the POST answered: the
\* backend has stored the document; toast, the modal closed, the form cleared,
\* fetchDocuments(), and finally setUploading(false)
UploadResolves(k) ==
    /\ k \in 1..Len(pending)
    /\ pending[k].by = "handleFileUpload"
    /\ Len(srvDocuments) < MaxDocuments
    /\ srvDocuments' = Append(srvDocuments,
           [id |-> Len(srvDocuments) + 1, original_filename |-> pending[k].body.file,
            document_type |-> pending[k].body.document_type,
            description |-> pending[k].body.description])
    /\ notified' = <<Toast("success", "Document uploaded successfully")>>
    /\ IF pending[k].live
       THEN /\ showModal' = FALSE
            /\ form' = ClearedUpload
            /\ busy' = FALSE
       ELSE UNCHANGED <<formVars, busy>>
    /\ pending' = Answered(k, <<Following(pending[k], "GET /api/documents", "fetchDocuments",
                                       Len(srvDocuments'))>>)
    /\ UNCHANGED <<srvMessages, srvMeetings, now, authVars, route, credentials,
                   loading, listVars, dashVars>>

\* DocumentManagement.handleFileUpload, the POST failing, without the finally
UploadRejects_NoFinally(k) ==
    /\ k \in 1..Len(pending)
    /\ pending[k].by = "handleFileUpload"
    /\ notified' = <<Toast("error", "Failed to upload document")>>
    /\ busy' = busy
    /\ pending' = Answered(k, <<>>)
    /\ UNCHANGED <<srvVars, now, authVars, route, credentials, loading, listVars,
                   formVars, dashVars>>

\* DocumentManagement.handleFileUpload, the POST failing: catch raises a toast,
\* finally setUploading(false)
UploadRejects(k) ==
    /\ k \in 1..Len(pending)
    /\ pending[k].by = "handleFileUpload"
    /\ notified' = <<Toast("error", "Failed to upload document")>>
    /\ busy' = IF pending[k].live THEN FALSE ELSE busy
    /\ pending' = Answered(k, <<>>)
    /\ UNCHANGED <<srvVars, now, authVars, route, credentials, loading, listVars,
                   formVars, dashVars>>

\* the code units of 'A'..'Z', 'a'..'z', '0'..'9', '+', '/'
Base64Alphabet == (65..90) \cup (97..122) \cup (48..57) \cup {43, 47}

\* the code unit of '='
Pad == 61

\* data without its trailing '=' or '==', when its length is a multiple of 4
StripPadding(data) ==
    IF Len(data) % 4 = 0 /\ Len(data) >= 2 /\ data[Len(data)] = Pad
    THEN IF data[Len(data) - 1] = Pad
         THEN SubSeq(data, 1, Len(data) - 2)
         ELSE SubSeq(data, 1, Len(data) - 1)
    ELSE data

\* atob(data) with every input accepted
atobThrows_Never(data) == FALSE

\* atob(data) throws InvalidCharacterError: a code unit outside the alphabet is
\* left after the padding is stripped, or the length left is 1 modulo 4
atobThrows(data) ==
    LET stripped == StripPadding(data) IN
    \/ Len(stripped) % 4 = 1
    \/ \E i \in 1..Len(stripped) : stripped[i] \notin Base64Alphabet

\* file_content values a download is answered with: "QQ==", "Q!"
FileContents == {<<81, 81, 61, 61>>, <<81, 33>>}

\* DocumentManagement.handleDownload up to the await: the download button of a
\* listed document
handleDownload(i) ==
    /\ route = "/documents"
    /\ ~loading /\ ~RenderThrows
    /\ i \in 1..Len(filterRun.list)
    /\ InFlight < MaxInFlight
    /\ pending' = Append(pending, Request("GET /api/documents/:id/download",
                      "handleDownload", [id |-> filterRun.list[i].id]))
    /\ notified' = <<>>
    /\ UNCHANGED <<srvVars, now, authVars, route, busy, credentials, loading,
                   listVars, formVars, dashVars>>

\* DocumentManagement.handleDownload after the await, the GET answered: the
\* content is decoded and saved, or the decoding throws into the catch
DownloadResolves(k, file_content) ==
    /\ k \in 1..Len(pending)
    /\ pending[k].by = "handleDownload"
    /\ notified' = IF atobThrows(file_content)
                   THEN <<Toast("error", "Failed to download document")>>
                   ELSE <<Toast("success", "Document downloaded successfully")>>
    /\ pending' = Answered(k, <<>>)
    /\ UNCHANGED <<srvVars, now, authVars, route, busy, credentials, loading,
                   listVars, formVars, dashVars>>

\* DocumentManagement.handleDownload, the GET failing
DownloadRejects(k) ==
    /\ k \in 1..Len(pending)
    /\ pending[k].by = "handleDownload"
    /\ notified' = <<Toast("error", "Failed to download document")>>
    /\ pending' = Answered(k, <<>>)
    /\ UNCHANGED <<srvVars, now, authVars, route, busy, credentials, loading,
                   listVars, formVars, dashVars>>

\* new Date(value) of a datetime-local value
parseLocal(value) ==
    IF "local" \in DOMAIN value THEN [nan |-> FALSE, ms |-> value.local]
    ELSE [nan |-> TRUE, ms |-> 0]

\* Meetings.createMeeting up to the await: the validation, then the POST with
\* the two times converted by toISOString(), which throws on an invalid date
createMeeting ==
    /\ route = "/meetings"
    /\ showModal
    /\ IF form.title = "" \/ form.start_time = Blank \/ form.end_time = Blank
          \/ form.family_id = ""
       THEN /\ notified' = <<Toast("error", "Please fill all required fields")>>
            /\ UNCHANGED pending
       ELSE IF parseLocal(form.start_time).nan \/ parseLocal(form.end_time).nan
       THEN /\ notified' = <<Toast("error", "Failed to create meeting")>>
            /\ UNCHANGED pending
       ELSE /\ InFlight < MaxInFlight
            /\ pending' = Append(pending, Request("POST /api/meetings", "createMeeting",
                              [form EXCEPT
                                  !.start_time = IsoString(parseLocal(form.start_time).ms),
                                  !.end_time = IsoString(parseLocal(form.end_time).ms)]))
            /\ notified' = <<>>
    /\ UNCHANGED <<srvVars, now, authVars, route, busy, credentials, loading,
                   listVars, formVars, dashVars>>

\* Meetings.createMeeting after the await, the POST answered: the backend has
\* stored the meeting; toast, the form cleared, the modal closed, fetchMeetings()
CreateMeetingResolves(k) ==
    /\ k \in 1..Len(pending)
    /\ pending[k].by = "createMeeting"
    /\ Len(srvMeetings) < MaxMeetings
    /\ srvMeetings' = Append(srvMeetings,
           [id |-> Len(srvMeetings) + 1, start_time |-> pending[k].body.start_time])
    /\ notified' = <<Toast("success", "Meeting scheduled successfully")>>
    /\ IF pending[k].live
       THEN /\ form' = InitialForm("/meetings", user)
            /\ showModal' = FALSE
       ELSE UNCHANGED formVars
    /\ pending' = Answered(k, <<Following(pending[k], "GET /api/meetings", "fetchMeetings",
                                       Len(srvMeetings'))>>)
    /\ UNCHANGED <<srvMessages, srvDocuments, now, authVars, route, busy, credentials,
                   loading, listVars, dashVars>>

\* Meetings.createMeeting, the POST failing: catch raises a toast, and that is all
CreateMeetingRejects(k) ==
    /\ k \in 1..Len(pending)
    /\ pending[k].by = "createMeeting"
    /\ notified' = <<Toast("error", "Failed to create meeting")>>
    /\ pending' = Answered(k, <<>>)
    /\ UNCHANGED <<srvVars, now, authVars, route, busy, credentials, loading,
                   listVars, formVars, dashVars>>

NextSession ==
    \/ \E path \in Paths : Navigate(path)
    \/ Logout
    \/ \E typed \in TypedCredentials : SetCredentials(typed)
    \/ handleSubmit
    \/ \E account \in DemoAccounts : handleDemoLogin(account)
    \/ \E k \in 1..Len(pending) : LoginSucceeds(k)
    \/ \E k \in 1..Len(pending) : LoginRefused(k)
    \/ \E k \in 1..Len(pending) : LoginThrows(k)
    \/ \E k \in 1..Len(pending) : DashboardResolves(k)
    \/ \E k \in 1..Len(pending) : DashboardRejects(k)
    \/ \E k \in 1..Len(pending) : FetchMessagesResolves(k)
    \/ \E k \in 1..Len(pending) : FetchMessagesRejects(k)
    \/ \E k \in 1..Len(pending) : FetchDocumentsResolves(k)
    \/ \E k \in 1..Len(pending) : FetchDocumentsRejects(k)
    \/ \E k \in 1..Len(pending) : FetchMeetingsResolves(k)
    \/ \E k \in 1..Len(pending) : FetchMeetingsRejects(k)
    \/ \E k \in 1..Len(pending) : FetchFamiliesResolves(k)
    \/ \E k \in 1..Len(pending) : FetchFamiliesRejects(k)

SpecSession == InitSession /\ [][NextSession]_vars

NextScreens ==
    \/ \E k \in 1..Len(pending) : FetchMessagesResolves(k)
    \/ \E k \in 1..Len(pending) : FetchMessagesRejects(k)
    \/ \E k \in 1..Len(pending) : FetchDocumentsResolves(k)
    \/ \E k \in 1..Len(pending) : FetchDocumentsRejects(k)
    \/ \E k \in 1..Len(pending) : FetchMeetingsResolves(k)
    \/ \E k \in 1..Len(pending) : FetchMeetingsRejects(k)
    \/ \E k \in 1..Len(pending) : FetchFamiliesResolves(k)
    \/ \E k \in 1..Len(pending) : FetchFamiliesRejects(k)
    \/ OpenModal
    \/ CloseModal
    \/ \E draft \in Drafts(route, user) : SetForm(draft)
    \/ (route = "/documents" /\ SetSearchTerm)
    \/ (route = "/documents" /\ SetFilterType)
    \/ sendMessage
    \/ \E k \in 1..Len(pending) : SendMessageResolves(k)
    \/ \E k \in 1..Len(pending) : SendMessageRejects(k)
    \/ handleFileUpload
    \/ \E k \in 1..Len(pending) : UploadResolves(k)
    \/ \E k \in 1..Len(pending) : UploadRejects(k)
    \/ \E i \in 1..Len(documents) : handleDownload(i)
    \/ \E k \in 1..Len(pending), content \in FileContents : DownloadResolves(k, content)
    \/ \E k \in 1..Len(pending) : DownloadRejects(k)
    \/ createMeeting
    \/ \E k \in 1..Len(pending) : CreateMeetingResolves(k)
    \/ \E k \in 1..Len(pending) : CreateMeetingRejects(k)

SpecScreens == InitScreens /\ [][NextScreens]_vars

\* the messages the backend may hold for the rows of the Messages screen: any
\* participants, read or unread
ReadableMessages ==
    [id : {1}, sender_id : ParticipantIds, recipient_id : ParticipantIds,
     created_at : {1}, is_read : BOOLEAN]

StoredConversations ==
    {[messages |-> msgs, meetings |-> <<>>, documents |-> <<>>] :
        msgs \in UNION {[1..n -> ReadableMessages] : n \in 0..MaxMessages}}

\* the Messages screen opened by the signed-in user over any stored messages
InitConversations ==
    \E stored \in StoredConversations : OpenedAt("/messages", TRUE, stored)

NextConversations ==
    \/ \E k \in 1..Len(pending) : FetchMessagesResolves(k)
    \/ \E k \in 1..Len(pending) : FetchMessagesRejects(k)
    \/ \E k \in 1..Len(pending) : FetchFamiliesResolves(k)
    \/ \E k \in 1..Len(pending) : FetchFamiliesRejects(k)

SpecConversations == InitConversations /\ [][NextConversations]_vars

\* the values the inputs of the form of the screen at path can hold: every
\* required field filled in or left unset, the message also of spaces only
TypedForms(path, who) ==
    LET familyValues == {""} \cup FamilyOptions
    IN  IF path = "/messages"
        THEN [newMessage : {<<>>, <<Space>>, <<104, 105>>},
              selectedRecipient : {<<>>, <<98>>},
              selectedFamily : familyValues]
        ELSE IF path = "/documents"
        THEN [file : {<<>>, <<65, 98>>}, document_type : {"contract"},
              description : {<<97, 66>>}, tags : {""}, selectedFamily : familyValues]
        ELSE IF path = "/meetings"
        THEN [title : {"", "Review"}, description : {<<>>},
              start_time : {Blank, LocalTime(MaxTime + 1)},
              end_time : {Blank, LocalTime(MaxTime + 2)},
              family_id : familyValues, advisor_id : {who.id}, meeting_link : {""}]
        ELSE {}

\* the three screens with a form: the reads of the mount, the modal, the inputs
\* and the submit handlers with their requests
NextForms ==
    \/ \E k \in 1..Len(pending) : FetchMessagesResolves(k)
    \/ \E k \in 1..Len(pending) : FetchMessagesRejects(k)
    \/ \E k \in 1..Len(pending) : FetchDocumentsResolves(k)
    \/ \E k \in 1..Len(pending) : FetchDocumentsRejects(k)
    \/ \E k \in 1..Len(pending) : FetchMeetingsResolves(k)
    \/ \E k \in 1..Len(pending) : FetchMeetingsRejects(k)
    \/ \E k \in 1..Len(pending) : FetchFamiliesResolves(k)
    \/ \E k \in 1..Len(pending) : FetchFamiliesRejects(k)
    \/ OpenModal
    \/ CloseModal
    \/ \E typed \in TypedForms(route, user) : SetForm(typed)
    \/ sendMessage
    \/ \E k \in 1..Len(pending) : SendMessageResolves(k)
    \/ \E k \in 1..Len(pending) : SendMessageRejects(k)
    \/ handleFileUpload
    \/ \E k \in 1..Len(pending) : UploadResolves(k)
    \/ \E k \in 1..Len(pending) : UploadRejects(k)
    \/ createMeeting
    \/ \E k \in 1..Len(pending) : CreateMeetingResolves(k)
    \/ \E k \in 1..Len(pending) : CreateMeetingRejects(k)

SpecForms == InitScreens /\ [][NextForms]_vars

\* the application opened at the Login or the Documents location
InitBusy ==
    \E path \in {"/login", "/documents"}, authenticated \in BOOLEAN,
       stored \in StoredAtStart :
        OpenedAt(path, authenticated, stored)

\* Login and DocumentManagement with what lies between them: the Login and
\* Dashboard locations entered (each redirects to the other, depending on the
\* session), the session, the Dashboard, and the upload modal
NextBusy ==
    \/ \E path \in {"/login", "/"} : Navigate(path)
    \/ Logout
    \/ \E typed \in TypedCredentials : SetCredentials(typed)
    \/ handleSubmit
    \/ \E account \in DemoAccounts : handleDemoLogin(account)
    \/ \E k \in 1..Len(pending) : LoginSucceeds(k)
    \/ \E k \in 1..Len(pending) : LoginRefused(k)
    \/ \E k \in 1..Len(pending) : LoginThrows(k)
    \/ \E k \in 1..Len(pending) : DashboardResolves(k)
    \/ \E k \in 1..Len(pending) : DashboardRejects(k)
    \/ \E k \in 1..Len(pending) : FetchDocumentsResolves(k)
    \/ \E k \in 1..Len(pending) : FetchDocumentsRejects(k)
    \/ \E k \in 1..Len(pending) : FetchFamiliesResolves(k)
    \/ \E k \in 1..Len(pending) : FetchFamiliesRejects(k)
    \/ OpenModal
    \/ CloseModal
    \/ \E draft \in Drafts(route, user) : SetForm(draft)
    \/ handleFileUpload
    \/ \E k \in 1..Len(pending) : UploadResolves(k)
    \/ \E k \in 1..Len(pending) : UploadRejects(k)

SpecBusy == InitBusy /\ [][NextBusy]_vars

\* one of the four screens that load is opened by the signed-in user
InitLoading ==
    \E path \in {"/", "/messages", "/documents", "/meetings"},
       stored \in StoredAtStart :
        OpenedAt(path, TRUE, stored)

NextLoading ==
    \/ NextForms
    \/ \E k \in 1..Len(pending) : DashboardResolves(k)
    \/ \E k \in 1..Len(pending) : DashboardRejects(k)

\* the primary read of a screen (fetchMessages, fetchDocuments, fetchMeetings,
\* one of the reads joined by fetchDashboardData) is answered in the end
PrimaryFetchAnswered(by) ==
    \E k \in 1..Len(pending) :
        /\ pending[k].by = by
        /\ \/ DashboardResolves(k) \/ DashboardRejects(k)
           \/ FetchMessagesResolves(k) \/ FetchMessagesRejects(k)
           \/ FetchDocumentsResolves(k) \/ FetchDocumentsRejects(k)
           \/ FetchMeetingsResolves(k) \/ FetchMeetingsRejects(k)

\* every request is answered by the network, with a response or an error
SpecLoading ==
    /\ InitLoading
    /\ [][NextLoading]_vars
    /\ WF_vars(PrimaryFetchAnswered("fetchDashboardData"))
    /\ WF_vars(PrimaryFetchAnswered("fetchMessages"))
    /\ WF_vars(PrimaryFetchAnswered("fetchDocuments"))
    /\ WF_vars(PrimaryFetchAnswered("fetchMeetings"))

\* the backend when the Dashboard is opened: any number of documents, of
\* messages in chronological order, and of meetings of which at most one
\* (the one at position held) has already been held
StoredDashboard ==
    UNION {
        {[documents |-> [i \in 1..nd |->
                            [id |-> i, original_filename |-> <<65, 98>>,
                             document_type |-> "report", description |-> <<97, 66>>]],
          messages |-> [i \in 1..nm |->
                           [id |-> i, sender_id |-> <<98>>, recipient_id |-> <<97>>,
                            created_at |-> i]],
          meetings |-> [i \in 1..nt |->
                           [id |-> i,
                            start_time |-> IF i = held THEN IsoString(0)
                                           ELSE IsoString(MaxTime + 1)]]] :
            nd \in 0..MaxStored, nm \in 0..MaxStored, held \in 0..nt} :
        nt \in 0..MaxStored}

\* the Dashboard opened by the signed-in user
InitDashboard ==
    \E stored \in StoredDashboard : OpenedAt("/", TRUE, stored)

NextDashboard ==
    \/ \E k \in 1..Len(pending) : DashboardResolves(k)
    \/ \E k \in 1..Len(pending) : DashboardRejects(k)

SpecDashboard == InitDashboard /\ [][NextDashboard]_vars

----------------------------------------------------------------------------
(* Claims: conversation grouping *)

\* the groups (positions in Object.values) whose conversation holds message m
GroupsHolding(m) ==
    {g \in 1..Len(groupedMessages) :
        \E p \in 1..Len(groupedMessages[g].conversation) :
            groupedMessages[g].conversation[p] = m}

\* the number of places (group, position) at which message m occurs
Occurrences(m) ==
    Cardinality({gp \in (1..Len(groupedMessages)) \X (1..Len(messages)) :
        /\ gp[2] <= Len(groupedMessages[gp[1]].conversation)
        /\ groupedMessages[gp[1]].conversation[gp[2]] = m})

RECURSIVE SumOfSizes(_, _)
SumOfSizes(grouped, g) ==
    IF g > Len(grouped) THEN 0
    ELSE Len(grouped[g].conversation) + SumOfSizes(grouped, g + 1)

\* the arrival position of message m in the fetched list
ArrivalIndex(m) == CHOOSE i \in 1..Len(messages) : messages[i] = m

UnorderedPair(m) == {m.sender_id, m.recipient_id}

\* C1: a message from A to B and a message from B to A are in the same group.
C1_SymmetricGrouping ==
    \A i \in 1..Len(messages), j \in 1..Len(messages) :
        (/\ messages[i].sender_id = messages[j].recipient_id
         /\ messages[i].recipient_id = messages[j].sender_id)
        => /\ GroupsHolding(messages[i]) # {}
           /\ GroupsHolding(messages[i]) = GroupsHolding(messages[j])

C1_Witness ==
    \E i \in 1..Len(messages), j \in 1..Len(messages) :
        /\ messages[i].sender_id # messages[i].recipient_id
        /\ StrLess(messages[i].recipient_id, messages[i].sender_id)
        /\ messages[i].sender_id = messages[j].recipient_id
        /\ messages[i].recipient_id = messages[j].sender_id
        /\ GroupsHolding(messages[i]) = GroupsHolding(messages[j])

\* C2: the group sizes sum to the length of the fetched list and every fetched
\* message occurs in exactly one group, exactly once.
C2_NoMessageDroppedOrDuplicated ==
    /\ SumOfSizes(groupedMessages, 1) = Len(messages)
    /\ \A i \in 1..Len(messages) :
          /\ Occurrences(messages[i]) = 1
          /\ Cardinality(GroupsHolding(messages[i])) = 1
    /\ \A g \in 1..Len(groupedMessages) :
          \A p \in 1..Len(groupedMessages[g].conversation) :
              \E i \in 1..Len(messages) :
                  messages[i] = groupedMessages[g].conversation[p]

C2_Witness ==
    /\ Len(messages) >= 2
    /\ Len(groupedMessages) < Len(messages)
    /\ SumOfSizes(groupedMessages, 1) = Len(messages)

\* C3: two messages whose unordered {sender_id, recipient_id} pairs differ are
\* never in the same group, whatever the participant ids are.
C3_OnePairPerGroup ==
    \A g \in 1..Len(groupedMessages) :
        \A p, q \in 1..Len(groupedMessages[g].conversation) :
            UnorderedPair(groupedMessages[g].conversation[p])
                = UnorderedPair(groupedMessages[g].conversation[q])

\* C4: inside a group the messages are in arrival order, and the latest message
\* displayed is the group's message that arrived last, whatever created_at says.
C4_ArrivalOrderAndLatest ==
    /\ Len(conversationRows) = Len(groupedMessages)
    /\ \A g \in 1..Len(groupedMessages) :
        LET conversation == groupedMessages[g].conversation IN
        /\ \A p, q \in 1..Len(conversation) :
              p < q => ArrivalIndex(conversation[p]) < ArrivalIndex(conversation[q])
        /\ \A p \in 1..Len(conversation) :
              ArrivalIndex(conversation[p])
                  <= ArrivalIndex(conversationRows[g].latestMessage)
        /\ \E p \in 1..Len(conversation) :
              conversation[p] = conversationRows[g].latestMessage

C4_Witness ==
    \E g \in 1..Len(groupedMessages) :
        LET conversation == groupedMessages[g].conversation IN
        /\ Len(conversation) >= 2
        /\ conversationRows[g].latestMessage = messages[Len(messages)]
        /\ conversationRows[g].latestMessage.created_at < conversation[1].created_at

----------------------------------------------------------------------------
(* Claims: upcoming/past *)

InSeq(seq, x) == \E k \in 1..Len(seq) : seq[k] = x

\* the start_time of meeting m is an instant strictly after instant t
StartsAfter(m, t) == "iso" \in DOMAIN m.start_time /\ m.start_time.iso > t

\* the start_time of meeting m is an instant that t has reached
Reached(m, t) == "iso" \in DOMAIN m.start_time /\ m.start_time.iso <= t

\* a step that renders Meetings
RenderStep == Rerender \/ FetchMeetingsFail \/ FetchMeetingsOk

\* C5: a meeting is listed upcoming iff its start_time is strictly after the clock
\* reading of its isUpcoming call, and is listed past iff it is not; meetings at
\* now-1 and now+1 give exactly one past and one upcoming entry.
C5_UpcomingIffStrictlyAfter ==
    LET n == Len(meetings) IN
    /\ Len(clockReads) = 2 * n
    /\ \A i \in 1..n :
          /\ InSeq(upcomingMeetings, meetings[i]) <=> StartsAfter(meetings[i], clockReads[i])
          /\ InSeq(pastMeetings, meetings[i]) <=> ~StartsAfter(meetings[i], clockReads[n + i])
    /\ \A r \in 1..MaxTime :
          (/\ n = 2
           /\ \A k \in 1..Len(clockReads) : clockReads[k] = r
           /\ meetings[1].start_time = IsoString(r - 1)
           /\ meetings[2].start_time = IsoString(r + 1))
          => /\ upcomingMeetings = <<meetings[2]>>
             /\ pastMeetings = <<meetings[1]>>

C5_Witness ==
    \E r \in 1..MaxTime :
        /\ Len(meetings) = 2
        /\ \A k \in 1..Len(clockReads) : clockReads[k] = r
        /\ meetings[1].start_time = IsoString(r - 1)
        /\ meetings[2].start_time = IsoString(r + 1)
        /\ Len(upcomingMeetings) = 1
        /\ Len(pastMeetings) = 1

\* C6: in a render every fetched meeting is in exactly one of upcomingMeetings and
\* pastMeetings.
C6_RenderPartitions ==
    \A i \in 1..Len(meetings) :
        InSeq(upcomingMeetings, meetings[i]) <=> ~InSeq(pastMeetings, meetings[i])

\* C7: over renders of an unchanged meetings list, a meeting whose start_time the
\* clock has reached is listed past and not upcoming, and a meeting listed past
\* stays past and is not listed upcoming again.
C7_UpcomingBecomesPast ==
    [][(RenderStep /\ meetings' = meetings)
        => \A i \in 1..Len(meetings) :
              (InSeq(pastMeetings, meetings[i]) \/ Reached(meetings[i], now))
              => /\ InSeq(pastMeetings', meetings[i])
                 /\ ~InSeq(upcomingMeetings', meetings[i])]_vars

C7_Witness ==
    \E i \in 1..Len(meetings) :
        /\ InSeq(prevUpcoming, meetings[i])
        /\ InSeq(pastMeetings, meetings[i])
        /\ ~InSeq(upcomingMeetings, meetings[i])
        /\ Reached(meetings[i], now)

----------------------------------------------------------------------------
(* Claims: document filter *)

\* code units c and d are the same letter, case aside
SameLetter(c, d) ==
    \/ c = d
    \/ c >= 65 /\ c <= 90 /\ d = c + 32
    \/ d >= 65 /\ d <= 90 /\ c = d + 32

\* text contains part as a substring, case aside
ContainsIgnoringCase(text, part) ==
    \E k \in 0..(Len(text) - Len(part)) :
        \A j \in 1..Len(part) : SameLetter(text[k + j], part[j])

\* the predicate of the filter contract
Retained(d) ==
    /\ \/ ContainsIgnoringCase(d.original_filename, searchTerm)
       \/ "description" \in DOMAIN d /\ ContainsIgnoringCase(d.description, searchTerm)
    /\ filterType = "" \/ d.document_type = filterType

\* every fetched document carries the original_filename of a Document
HasFilenames == \A i \in 1..Len(documents) : "original_filename" \in DOMAIN documents[i]

\* C8: over documents that carry their original_filename, filteredDocuments is the
\* sub-list, in order, of the documents whose filename or description contains the
\* search term (case aside) and whose type is the filter's or the filter is empty;
\* typing a search term or choosing a type leaves documents as it is.
C8_FilterIsTheRetainedSublist ==
    /\ [](HasFilenames =>
            /\ ~RenderThrows
            /\ filteredDocuments = SelectSeq(documents, Retained))
    /\ [][(searchTerm' # searchTerm \/ filterType' # filterType)
            => documents' = documents]_vars

C8_Witness ==
    /\ HasFilenames
    /\ searchTerm = <<97>>
    /\ filterType = "contract"
    /\ Len(documents) = 2
    /\ documents[1].document_type = "report"
    /\ documents[2].original_filename = <<98>>
    /\ filteredDocuments = <<documents[2]>>

\* C9: with an empty search term and an empty type filter, filteredDocuments is
\* the documents list itself, documents without description included.
C9_EmptyFilterIsIdentity ==
    (HasFilenames /\ searchTerm = <<>> /\ filterType = "")
    => /\ ~RenderThrows
       /\ filteredDocuments = documents

C9_Witness ==
    /\ ~loading
    /\ HasFilenames
    /\ searchTerm = <<>>
    /\ filterType = ""
    /\ Len(documents) >= 2
    /\ \E i \in 1..Len(documents) : "description" \notin DOMAIN documents[i]
    /\ \E i \in 1..Len(documents) : "description" \in DOMAIN documents[i]
    /\ filteredDocuments = documents

\* C10: with a type filter set that no document has, the filter returns the empty
\* list and does not throw, whatever fields the fetched records lack.
C10_NoMatchIsEmptyNeverThrows ==
    (/\ filterType # ""
     /\ \A i \in 1..Len(documents) : documents[i].document_type # filterType)
    => /\ ~RenderThrows
       /\ filteredDocuments = <<>>

----------------------------------------------------------------------------
(* Claims: session and routes *)

\* the screens behind ProtectedRoute
ProtectedScreens == {"/", "/documents", "/messages", "/meetings"}

\* the requests in flight that are logins
LoginRequests(requests) ==
    {k \in 1..Len(requests) : requests[k].kind = "POST /api/auth/login"}

\* this step answers a login
LoginAnswered ==
    Cardinality(LoginRequests(pending')) < Cardinality(LoginRequests(pending))

\* this step raises exactly one toast, of the level
RaisesOne(level) == Len(notified') = 1 /\ notified'[1].level = level

\* C16: a protected screen (/, /documents, /messages, /meetings) is shown only
\* while the session is authenticated, and navigating to any location other
\* than /login while unauthenticated ends at /login.
C16_ProtectedOnlyWhileAuthenticated ==
    /\ [](route \in ProtectedScreens => isAuthenticated)
    /\ [][\A path \in Paths \ {"/login"} :
             (~isAuthenticated /\ Navigate(path)) => route' = "/login"]_vars

\* unauthenticated at /login, a protected screen having been unmounted with a
\* request still in flight
C16_Witness ==
    /\ ~isAuthenticated
    /\ route = "/login"
    /\ \E k \in 1..Len(pending) : ~pending[k].live /\ pending[k].by = "fetchDocuments"

\* C17: a login changes the authentication state only when it succeeds; a login
\* answered with an error result or a throw leaves the user and the flag as
\* they were and raises exactly one error toast.
C17_LoginMutatesOnlyOnSuccess ==
    /\ [][(LoginAnswered /\ ~RaisesOne("success"))
             => (UNCHANGED authVars /\ RaisesOne("error"))]_vars
    /\ [][(isAuthenticated' /\ authVars' # authVars)
             => (LoginAnswered /\ RaisesOne("success"))]_vars

\* a login has just thrown: the Login screen is idle again, unauthenticated
C17_Witness ==
    /\ ~isAuthenticated
    /\ user = NoUser
    /\ route = "/login"
    /\ ~busy
    /\ notified = <<Toast("error", "Login failed. Please try again.")>>

\* C18: a login that succeeds while Login is shown, from the form or a demo
\* button, leaves the session authenticated with the role of the account (admin
\* for admin@demo.com), the Dashboard shown and one success toast raised; from
\* then on, while the session stays authenticated, navigating to /documents
\* shows the documents screen.
C18_LoginSuccessOpensTheApp ==
    /\ [][(route = "/login" /\ LoginAnswered /\ RaisesOne("success"))
             => /\ isAuthenticated'
                /\ route' = "/"
                /\ \E k \in LoginRequests(pending) :
                      /\ user'.email = pending[k].body.email
                      /\ (user'.email = "admin@demo.com" => user'.role = "admin")
                      /\ (user'.email = "member@demo.com" => user'.role = "family_member")]_vars
    /\ [][(isAuthenticated /\ Navigate("/documents")) => route' = "/documents"]_vars

\* the admin account has just logged in from the form and the Dashboard is shown
C18_Witness ==
    /\ isAuthenticated
    /\ user.role = "admin"
    /\ route = "/"
    /\ notified = <<Toast("success", "Login successful!")>>

----------------------------------------------------------------------------
(* Claims: the Dashboard join *)

\* the requests of the mounted Dashboard still in flight
DashboardInFlight ==
    {k \in 1..Len(pending) : pending[k].live /\ pending[k].by = "fetchDashboardData"}

\* every read of the mounted Dashboard has been answered
AllFourAnswered == \A f \in JoinFields : dashJoin[f].got

\* the first five items of a list
FirstFive(list) == [i \in 1..(IF Len(list) < 5 THEN Len(list) ELSE 5) |-> list[i]]

\* C12: the Dashboard fetch is all-or-nothing: once fetchDashboardData has
\* finished, either all four reads succeeded and stats, recentDocuments,
\* recentMessages and upcomingMeetings are set from the four responses, or a
\* read failed and none of the four was changed; either way loading is false.
\* Until it has finished none of the four is changed.
C12_DashboardAllOrNothing ==
    route = "/" =>
        IF dashJoin.settled /\ AllFourAnswered
        THEN /\ ~loading
             /\ stats = [documents |-> Len(dashJoin.documents.data),
                         messages |-> Len(dashJoin.messages.data),
                         meetings |-> Len(dashJoin.meetings.data),
                         families |-> Len(dashJoin.families.data)]
             /\ recentDocuments = FirstFive(dashJoin.documents.data)
             /\ recentMessages = FirstFive(dashJoin.messages.data)
             /\ dashUpcoming = FirstFive(dashJoin.meetings.data)
        ELSE /\ dashJoin.settled => ~loading
             /\ stats = InitialStats
             /\ recentDocuments = <<>>
             /\ recentMessages = <<>>
             /\ dashUpcoming = <<>>

\* the four reads have succeeded against a backend that holds a record of each
\* kind, and the Dashboard shows them
C12_Witness ==
    /\ route = "/"
    /\ dashJoin.settled
    /\ AllFourAnswered
    /\ stats = [documents |-> 1, messages |-> 1, meetings |-> 1, families |-> 1]
    /\ Len(recentDocuments) = 1 /\ Len(recentMessages) = 1 /\ Len(dashUpcoming) = 1
    /\ ~loading

\* C13: loading is never false while one of the four requests issued by
\* fetchDashboardData is still in flight, also when one of them has failed.
C13_LoadingUntilAllCompleted ==
    (route = "/" /\ DashboardInFlight # {}) => loading

----------------------------------------------------------------------------
(* Claims: failed reads *)

\* this step is the failure of a read: of one of the Dashboard's joined reads,
\* or of a GET of messages, documents, meetings or families
ReadFails ==
    \E k \in 1..Len(pending) :
        \/ DashboardRejects(k)
        \/ FetchMessagesRejects(k)
        \/ FetchDocumentsRejects(k)
        \/ FetchMeetingsRejects(k)
        \/ FetchFamiliesRejects(k)

\* C14: every failed fetch, on every screen (messages, families, documents,
\* meetings and the Dashboard's joined reads) is surfaced as a user-facing
\* notification: the step in which a read fails raises a toast.
C14_EveryFailedReadNotifies ==
    [][ReadFails => notified' # <<>>]_vars

\* C15: a failed read leaves the prior collection in place: when the GET of
\* messages, documents, meetings or families fails, the state variable keeps the
\* value it had before.
C15_FailedReadKeepsCollection ==
    [][\A k \in 1..Len(pending) :
          /\ (FetchMessagesRejects(k) => messages' = messages)
          /\ (FetchDocumentsRejects(k) => documents' = documents)
          /\ (FetchMeetingsRejects(k) => meetings' = meetings)
          /\ (FetchFamiliesRejects(k) => families' = families)]_vars

\* the re-fetch after a message was sent has just failed on a list that was
\* fetched before
C15_Witness ==
    /\ route = "/messages"
    /\ messages # <<>>
    /\ Len(srvMessages) > Len(messages)
    /\ notified = <<Toast("error", "Failed to fetch messages")>>

----------------------------------------------------------------------------
(* Claims: mutations and downloads *)

\* this step answers a request issued by the handler: the request leaves the
\* requests in flight, and what the handler issues on its way out is added
Answers(by) ==
    /\ Len(pending') \in {Len(pending) - 1, Len(pending)}
    /\ pending' # pending
    /\ \E k \in 1..Len(pending) :
          /\ pending[k].by = by
          /\ SubSeq(pending', 1, Len(pending) - 1) = RemoveAt(pending, k)

\* the POST of the handler fails: it is answered and the backend stored nothing
PostFails(by) == Answers(by) /\ UNCHANGED srvVars

\* the POST of the handler succeeds: it is answered and the backend has stored
PostSucceeds(by) == Answers(by) /\ srvVars' # srvVars

\* C11: when the POST of sendMessage fails, the messages list is unchanged,
\* exactly one failure toast is raised, newMessage, selectedRecipient,
\* selectedFamily and the open modal keep their values, and no re-fetch of the
\* messages is issued.
C11_FailedSendKeepsTheForm ==
    [][PostFails("sendMessage")
          => /\ messages' = messages
             /\ RaisesOne("error")
             /\ form' = form
             /\ showModal' = showModal
             /\ Len(pending') = Len(pending) - 1
             /\ InFlightOf(pending', "GET /api/messages")
                   = InFlightOf(pending, "GET /api/messages")]_vars

\* a send has just failed: the modal is open with the draft still in it
C11_Witness ==
    /\ route = "/messages"
    /\ showModal
    /\ form.newMessage = <<104, 105>>
    /\ form.selectedRecipient = <<98>>
    /\ form.selectedFamily = "f1"
    /\ messages # <<>>
    /\ notified = <<Toast("error", "Failed to send message")>>

\* the three mutations, with the GET of the collection each affects and the
\* screen each belongs to
Mutations ==
    {[by |-> "sendMessage", kind |-> "GET /api/messages", path |-> "/messages"],
     [by |-> "handleFileUpload", kind |-> "GET /api/documents", path |-> "/documents"],
     [by |-> "createMeeting", kind |-> "GET /api/meetings", path |-> "/meetings"]}

\* C19: for sendMessage, handleFileUpload and createMeeting, a POST that
\* succeeds is followed, in the step that answers it and not before, by one GET
\* of the affected collection, with the form reset and the modal closed; a POST
\* that fails issues no GET and leaves the form and the modal as they were.
C19_PostThenRefetch ==
    [][\A m \in Mutations :
          /\ (PostSucceeds(m.by)
                => /\ Len(pending') = Len(pending)
                   /\ pending'[Len(pending')].kind = m.kind
                   /\ InFlightOf(pending', m.kind) = InFlightOf(pending, m.kind) + 1
                   /\ form' = InitialForm(m.path, user)
                   /\ ~showModal')
          /\ (PostFails(m.by)
                => /\ Len(pending') = Len(pending) - 1
                   /\ InFlightOf(pending', m.kind) = InFlightOf(pending, m.kind)
                   /\ UNCHANGED formVars)
          /\ (InFlightOf(pending', m.kind) > InFlightOf(pending, m.kind)
                => PostSucceeds(m.by))]_vars

\* an upload has just succeeded: the modal is closed, the form is reset and the
\* GET of the documents is in flight
C19_Witness ==
    /\ route = "/documents"
    /\ notified = <<Toast("success", "Document uploaded successfully")>>
    /\ ~showModal
    /\ form = ClearedUpload
    /\ Len(srvDocuments) > Len(documents)
    /\ InFlightOf(pending, "GET /api/documents") = 1

\* the file_content values that are well-formed base64: "QQ=="
WellFormed == {<<81, 81, 61, 61>>}

\* C20: each handleDownload issues exactly one download request and never
\* another; when it is answered exactly one toast is raised, the success toast
\* when the request and the base64 decoding both succeed and the failure toast
\* when either fails; documents, searchTerm and filterType are unchanged
\* throughout.
C20_DownloadOneRequestOneToast ==
    [][/\ ((Len(pending') > Len(pending) /\ \E i \in 1..Len(documents) : handleDownload(i))
             => /\ InFlightOf(pending', "GET /api/documents/:id/download")
                      = InFlightOf(pending, "GET /api/documents/:id/download") + 1
                /\ Len(pending') = Len(pending) + 1
                /\ notified' = <<>>
                /\ UNCHANGED <<documents, searchTerm, filterType>>)
        /\ (Answers("handleDownload")
             => /\ Len(pending') = Len(pending) - 1
                /\ UNCHANGED <<documents, searchTerm, filterType>>
                /\ RaisesOne("success") \/ RaisesOne("error"))
        /\ (Answers("handleDownload")
             => \A k \in 1..Len(pending) :
                   /\ \A content \in FileContents :
                         DownloadResolves(k, content)
                            => (RaisesOne("success") <=> content \in WellFormed)
                   /\ (DownloadRejects(k) => RaisesOne("error")))]_vars

\* a filtered list with a document in it, and a download just saved
C20_Witness ==
    /\ route = "/documents"
    /\ documents # <<>>
    /\ filterType = "contract"
    /\ notified = <<Toast("success", "Document downloaded successfully")>>

----------------------------------------------------------------------------
(* Claims: the conversations rendered *)

\* C28: every group returned by groupMessagesByConversation is non-empty, there
\* are at most as many groups as messages, and no group at all exactly when the
\* list of messages is empty: the latest message of a rendered conversation,
\* conversation[conversation.length - 1], always exists
C28_GroupsNonEmpty ==
    /\ \A g \in 1..Len(groupedMessages) :
           /\ Len(groupedMessages[g].conversation) >= 1
           /\ Len(groupedMessages[g].conversation) \in
                  DOMAIN groupedMessages[g].conversation
    /\ Len(groupedMessages) <= Len(messages)
    /\ (Len(groupedMessages) = 0) <=> (messages = <<>>)

\* two messages fetched, grouped into a single conversation
C28_Witness ==
    /\ ~loading
    /\ Len(messages) = 2
    /\ Len(groupedMessages) = 1

\* C21: the row of a conversation shows the unread dot exactly when the latest
\* message of the conversation has is_read false and a sender other than the
\* current user, and its 'sent by the current user' flag is true exactly when
\* the sender of that message is the current user
C21_UnreadAndSentFlags ==
    /\ Len(conversationFlags) = Len(groupedMessages)
    /\ \A g \in 1..Len(groupedMessages) :
           LET conversation == groupedMessages[g].conversation
               last == conversation[Len(conversation)]
           IN  /\ conversationFlags[g].unread <=>
                      (last.is_read = FALSE /\ last.sender_id # user.id)
               /\ conversationFlags[g].isCurrentUserSender <=>
                      (last.sender_id = user.id)

\* two conversations rendered: one whose latest message is unread and sent by
\* the user (no dot), one whose latest message is unread and received (dot)
C21_Witness ==
    /\ ~loading
    /\ Len(groupedMessages) = 2
    /\ ~messages[1].is_read /\ messages[1].sender_id = user.id
    /\ ~conversationFlags[1].unread
    /\ ~messages[2].is_read /\ messages[2].sender_id # user.id
    /\ conversationFlags[2].unread

----------------------------------------------------------------------------
(* Claims: the Dashboard lists *)

\* Promise.all has resolved: the four responses are in and were applied
DashboardFetched ==
    /\ route = "/"
    /\ dashJoin.settled
    /\ \A f \in JoinFields : dashJoin[f].got

\* the recent list holds min(5, n) items, each one of the fetched collection
HoldsUpToFive(recent, fetched) ==
    /\ Len(recent) = (IF Len(fetched) < 5 THEN Len(fetched) ELSE 5)
    /\ \A i \in 1..Len(recent) : \E j \in 1..Len(fetched) : recent[i] = fetched[j]

\* no message left out of the recent list is more recent than one in it
MostRecent(recent, fetched) ==
    \A i \in 1..Len(recent), j \in 1..Len(fetched) :
        (\A h \in 1..Len(recent) : recent[h] # fetched[j])
            => fetched[j].created_at <= recent[i].created_at

\* C22: after a successful Dashboard fetch each of the four counts is the
\* length of its fetched collection, and each recent list holds the five most
\* recent items of its collection: min(5, n) items, all of the collection, and
\* for the messages (which carry created_at) none older than a message left out
C22_CountsAndFiveMostRecent ==
    DashboardFetched =>
        /\ stats.documents = Len(dashJoin.documents.data)
        /\ stats.messages = Len(dashJoin.messages.data)
        /\ stats.meetings = Len(dashJoin.meetings.data)
        /\ stats.families = Len(dashJoin.families.data)
        /\ HoldsUpToFive(recentDocuments, dashJoin.documents.data)
        /\ HoldsUpToFive(recentMessages, dashJoin.messages.data)
        /\ HoldsUpToFive(dashUpcoming, dashJoin.meetings.data)
        /\ MostRecent(recentMessages, dashJoin.messages.data)

\* C29: every meeting the Dashboard holds in upcomingMeetings starts strictly
\* after the current time, as isUpcoming classifies on the Meetings screen
C29_DashboardUpcomingAreUpcoming ==
    route = "/" =>
        \A i \in 1..Len(dashUpcoming) : isUpcoming(dashUpcoming[i].start_time, now)

----------------------------------------------------------------------------
(* Claims: requests and the life of their component *)

\* the handlers that read a collection
FetchHandlers ==
    {"fetchDashboardData", "fetchMessages", "fetchDocuments", "fetchMeetings",
     "fetchFamilies"}

\* this step answers the k-th request in flight, a read whose screen is gone
AnswersOrphanedFetch(k) ==
    /\ ~pending[k].live
    /\ pending[k].by \in FetchHandlers
    /\ pending' = RemoveAt(pending, k)

\* C23: no request in flight is cancelled when its component is removed: a
\* read pending when its screen is unmounted (by a navigation or a logout) is
\* still in flight afterwards, and when it is answered later its handler runs
\* against the removed component, the state of the screen now shown untouched
C23_UnmountCancelsNothing ==
    [][/\ (pending # <<>> /\ (Logout \/ \E path \in Paths : Navigate(path)))
           => \A k \in 1..Len(pending) :
                  pending[k].by \in FetchHandlers
                      => \E j \in 1..Len(pending') :
                             pending'[j] = [pending[k] EXCEPT !.live = FALSE]
       /\ (Len(pending') = Len(pending) - 1
              /\ \E k \in 1..Len(pending) : AnswersOrphanedFetch(k))
           => UNCHANGED <<screenVars, authVars>>
      ]_vars

\* Messages was left for Documents with its GET /api/messages pending: the
\* request is still in flight after Documents has finished loading
C23_Witness ==
    /\ route = "/documents"
    /\ ~loading
    /\ \E k \in 1..Len(pending) :
          ~pending[k].live /\ pending[k].by = "fetchMessages"

----------------------------------------------------------------------------
(* Claims: validation before the request *)

\* the text is empty or consists of spaces only
BlankText(text) == \A i \in 1..Len(text) : text[i] = 32

\* the form of the screen shown does not pass the validation of its handler
RejectedForm ==
    IF route = "/messages"
    THEN BlankText(form.newMessage) \/ form.selectedRecipient = <<>>
            \/ form.selectedFamily = ""
    ELSE IF route = "/documents"
    THEN form.file = <<>> \/ form.selectedFamily = ""
    ELSE form.title = "" \/ form.start_time = Blank \/ form.end_time = Blank
            \/ form.family_id = ""

\* the text of the toast the validation of the screen shown raises
RejectionText ==
    IF route = "/messages" THEN "Please fill all fields"
    ELSE IF route = "/documents" THEN "Please select a file and family"
    ELSE "Please fill all required fields"

\* C24: sendMessage, handleFileUpload and createMeeting issue no request when
\* a required field is unset (or the message is empty or of white space only):
\* the submit raises exactly one error toast and changes nothing else
C24_ValidationBlocksTheRequest ==
    [][(RejectedForm /\ (sendMessage \/ handleFileUpload \/ createMeeting))
          => /\ pending' = pending
             /\ notified' = <<[level |-> "error", text |-> RejectionText]>>
             /\ UNCHANGED <<screenVars, authVars, srvVars>>
      ]_vars

\* a message of spaces only was submitted with recipient and family selected:
\* the toast is up and nothing is in flight
C24_Witness ==
    /\ route = "/messages"
    /\ form.newMessage = <<32>>
    /\ form.selectedRecipient # <<>>
    /\ form.selectedFamily # ""
    /\ notified = <<[level |-> "error", text |-> "Please fill all fields"]>>
    /\ pending = <<>>

----------------------------------------------------------------------------
(* Claims: the busy flags *)

\* a request of one of the handlers, issued by the component now mounted, is in
\* flight
OwnRequestInFlight(handlers) ==
    \E k \in 1..Len(pending) : pending[k].live /\ pending[k].by \in handlers

\* C26: Login's loading is true exactly while the login request of the mounted
\* Login is in flight, DocumentManagement's uploading exactly while its upload
\* is in flight, both false again after every outcome; a login attempt raises
\* no toast when it is issued and exactly one when it is answered
C26_BusyBracketsItsRequest ==
    /\ [](/\ ((route = "/login")
                => (busy <=> OwnRequestInFlight({"handleSubmit", "handleDemoLogin"})))
           /\ ((route = "/documents")
                => (busy <=> OwnRequestInFlight({"handleFileUpload"}))))
    /\ [][/\ (LoginAnswered => Len(notified') = 1)
           /\ ((Cardinality(LoginRequests(pending')) > Cardinality(LoginRequests(pending)))
                => notified' = <<>>)
          ]_vars

\* an upload has failed: the error toast is up, nothing is in flight and the
\* modal, still open, is no longer busy
C26_Witness ==
    /\ route = "/documents"
    /\ showModal
    /\ ~busy
    /\ notified = <<[level |-> "error", text |-> "Failed to upload document"]>>
    /\ ~OwnRequestInFlight({"handleFileUpload"})

----------------------------------------------------------------------------
(* Claims: the loading flag *)

\* C25: on Messages, DocumentManagement, Meetings and the Dashboard loading is
\* true at mount; provided the primary read of the screen is answered, loading
\* becomes false; once false it never becomes true again, re-fetches included
C25_LoadingEndsAndStaysOff ==
    /\ loading = TRUE
    /\ <>(~loading)
    /\ [][~loading => ~loading']_vars

\* Messages has loaded, a message was sent, and the re-fetch is in flight with
\* loading still false
C25_Witness ==
    /\ route = "/messages"
    /\ ~loading
    /\ Len(srvMessages) > Len(messages)
    /\ \E k \in 1..Len(pending) : pending[k].by = "fetchMessages"

----------------------------------------------------------------------------
(* Claims: requests in flight together *)

\* C27: a response to an earlier-issued GET /api/messages never overwrites the
\* response of a later-issued one: when a fetch that a later-issued fetch has
\* already answered is answered in turn, the messages shown stay as they are, so
\* that after all requests the list is that of the most recently issued fetch
C27_EarlierFetchNeverOverwrites ==
    [][\A k \in 1..Len(pending) :
          (/\ pending[k].by = "fetchMessages"
           /\ pending[k].live
           /\ "after" \in DOMAIN pending[k].body
           /\ pending[k].body.superseded
           /\ FetchMessagesResolves(k))
              => messages' = messages
      ]_vars

\* the requests in flight issued by the mounted component through the handlers
OwnRequests(handlers) ==
    {k \in 1..Len(pending) : pending[k].live /\ pending[k].by \in handlers}

\* C30: at most one request per draft is in flight: never two logins, never two
\* uploads, and never two POST /api/messages carrying the same draft
C30_OneRequestPerDraft ==
    /\ Cardinality(OwnRequests({"handleSubmit", "handleDemoLogin"})) <= 1
    /\ Cardinality(OwnRequests({"handleFileUpload"})) <= 1
    /\ \A j, k \in OwnRequests({"sendMessage"}) :
           (j # k) => (pending[j].body # pending[k].body)

====
